---- MODULE Spec2Model ----
(***************************************************************************)
(* Scene router and scroll-synchronisation engine of src/app.js.           *)
(*                                                                         *)
(* The page is single threaded: every action below is one event handler    *)
(* (scroll, resize, intersection-observer callback) or one asynchronous    *)
(* completion (end of a d3 transition, resolution of the d3.csv promise,   *)
(* a setTimeout callback) run to completion.                               *)
(*                                                                         *)
(* The chart functions of app.js are operators from a state record to a    *)
(* state record, composed in the order the code calls them; every action   *)
(* packs the variables into a record (Cur), applies the handler and        *)
(* commits the result (Commit).                                            *)
(***************************************************************************)
EXTENDS Integers, Sequences, FiniteSets, TLC

\* ------------------------------------------------------------------ bounds
\* pending root transitions (d3.transition() objects not yet ended)
MaxFades == 2
\* d3.csv requests in flight
MaxLoads == 2
\* setTimeout callbacks not yet fired
MaxTimers == 1

\* ------------------------------------------------- fear labels and groups
FEAR_CATEGORY_NAMES ==
  << "Invasion, Impostors & Paranoia",
     "Persecution & Social Breakdown",
     "Institutional & Structural Control",
     "Possession & Loss of Agency",
     "Captivity & Voyeuristic Sadism",
     "Contagion & Mutation",
     "Body Horror / Envelope Violation",
     "Ecological / Natural Menace",
     "Isolation & Psychological Unraveling",
     "Grief & Familial Trauma",
     "Transgression & Moral Punishment" >>

FEAR_SET == { FEAR_CATEGORY_NAMES[i] : i \in DOMAIN FEAR_CATEGORY_NAMES }

Societal == "Societal & Structural Horrors"
Body == "The Body as Battleground"
Psychological == "Psychological & Domestic Horrors"
Cosmic == "Cosmic & Moral Reckonings"

\* Map.get: the group of a label, "undefined" for a key the map lacks
FEAR_GROUP_MAP(fear) ==
  CASE fear \in { "Invasion, Impostors & Paranoia",
                  "Persecution & Social Breakdown",
                  "Institutional & Structural Control" } -> Societal
    [] fear \in { "Captivity & Voyeuristic Sadism",
                  "Contagion & Mutation",
                  "Body Horror / Envelope Violation" } -> Body
    [] fear \in { "Possession & Loss of Agency",
                  "Isolation & Psychological Unraveling",
                  "Grief & Familial Trauma" } -> Psychological
    [] fear \in { "Ecological / Natural Menace",
                  "Transgression & Moral Punishment" } -> Cosmic
    [] OTHER -> "undefined"

\* the keys of the description table
DescriptionKeys ==
  { "Invasion, Impostors & Paranoia",
    "Persecution & Social Breakdown",
    "Institutional & Structural Control",
    "Possession & Loss of Agency",
    "Captivity & Voyeuristic Sadism",
    "Contagion & Mutation",
    "Body Horror",
    "Ecological / Natural Menace",
    "Isolation & Psychological Unraveling",
    "Grief & Familial Trauma",
    "Transgression & Moral Punishment" }

\* FEAR_CATEGORY_DESCRIPTIONS[fear]: the sentence stored under the key (its
\* opening clause stands for the sentence), "undefined" for a key the table
\* lacks
FEAR_CATEGORY_DESCRIPTIONS(fear) ==
  CASE fear = "Invasion, Impostors & Paranoia" ->
         "Fear of being replaced, infiltrated, or observed by hidden others"
    [] fear = "Persecution & Social Breakdown" ->
         "Fear of mob violence, cult domination, or the collapse of moral order"
    [] fear = "Institutional & Structural Control" ->
         "Fear of domination by organized systems"
    [] fear = "Possession & Loss of Agency" ->
         "Fear of losing control of one's mind or body to supernatural or psychological forces"
    [] fear = "Captivity & Voyeuristic Sadism" ->
         "Fear of imprisonment, coercion, and deliberate human cruelty"
    [] fear = "Contagion & Mutation" ->
         "Fear of infection or involuntary biological transformation"
    [] fear = "Body Horror" ->
         "Fear of bodily invasion, forced metamorphosis, or dismemberment"
    [] fear = "Ecological / Natural Menace" ->
         "Fear of nature turning hostile"
    [] fear = "Isolation & Psychological Unraveling" ->
         "Fear that solitude itself becomes the menace"
    [] fear = "Grief & Familial Trauma" ->
         "Fear rooted in loss, inheritance, or haunted domestic bonds"
    [] fear = "Transgression & Moral Punishment" ->
         "Fear of violating sacred or moral boundaries and suffering retribution"
    [] OTHER -> "undefined"

\* ------------------------------------------------------------ genre table
\* The aggregates the scatter is drawn from (genreData): a table small
\* enough to enumerate in which the three dim predicates (horror only, the
\* comedy/action/drama allow-list, the rating/views quadrant test) select
\* three different sets.  avg_imdb is in tenths, total_views in millions.
genreData ==
  << [genre |-> "Horror",      avg_imdb |-> 55, total_views |-> 20],
     [genre |-> "Comedy",      avg_imdb |-> 60, total_views |-> 90],
     [genre |-> "Action",      avg_imdb |-> 58, total_views |-> 95],
     [genre |-> "Drama",       avg_imdb |-> 68, total_views |-> 85],
     [genre |-> "Documentary", avg_imdb |-> 72, total_views |-> 15] >>

Genres == { genreData[i].genre : i \in DOMAIN genreData }

Datum(g) == CHOOSE d \in { genreData[i] : i \in DOMAIN genreData } : d.genre = g

\* String.prototype.toLowerCase on the genre names of the table
toLowerCase(g) ==
  CASE g = "Horror" -> "horror"
    [] g = "Comedy" -> "comedy"
    [] g = "Action" -> "action"
    [] g = "Drama" -> "drama"
    [] g = "Documentary" -> "documentary"
    [] OTHER -> g

RECURSIVE SumOver(_, _)
SumOver(f, S) ==
  IF S = {} THEN 0
  ELSE LET x == CHOOSE y \in S : TRUE IN f[x] + SumOver(f, S \ {x})

SumRating == SumOver([g \in Genres |-> Datum(g).avg_imdb], Genres)
SumViews == SumOver([g \in Genres |-> Datum(g).total_views], Genres)
NGenres == Cardinality(Genres)

\* d.avg_imdb <= meanRating, d.total_views >= meanViews with the means
\* d3.mean(genreData, ...) kept as exact fractions Sum / N
RatingAtMostMean(g) == Datum(g).avg_imdb * NGenres <= SumRating
ViewsAtLeastMean(g) == Datum(g).total_views * NGenres >= SumViews

\* genreData.find(d => d.genre?.toLowerCase() === "horror")
HasHorror == \E g \in Genres : toLowerCase(g) = "horror"

\* -------------------------------------------------------- narrative cards
\* The .step elements in document order.  "" stands for an absent
\* attribute.  The deck holds a card without data-scene, cards for the
\* scatter scenes, the bars scene, two of the four bars_* scenes (the four
\* branches differ in the supergroup only) and a last, tall card with an
\* identifier the router's comment lists and its code does not handle.
TitleHit == "The Hit Matrix"
TitleHorror == "Horror in the Hit Matrix"
TitleBars == "What Are We Afraid of?"
SubtitleBars == "Horror titles ... divided into the main core fears"
TitleInitial == "(markup title)"
SubtitleInitial == "(markup subtitle)"
SubtitleCard == "(card subtitle)"

steps ==
  << [scene |-> "baseline",          title |-> TitleHit,    subtitle |-> SubtitleCard, height |-> 2],
     [scene |-> "",                  title |-> "",          subtitle |-> "",           height |-> 2],
     [scene |-> "high-views",        title |-> "",          subtitle |-> "",           height |-> 2],
     [scene |-> "critical-darlings", title |-> "",          subtitle |-> "",           height |-> 2],
     [scene |-> "horror",            title |-> "",          subtitle |-> "",           height |-> 2],
     [scene |-> "horror-zoom",       title |-> TitleHorror, subtitle |-> "",           height |-> 2],
     [scene |-> "bars",              title |-> TitleBars,   subtitle |-> SubtitleCard, height |-> 2],
     [scene |-> "bars_body",         title |-> "",          subtitle |-> "",           height |-> 2],
     [scene |-> "bars_cosmic",       title |-> "",          subtitle |-> "",           height |-> 2],
     [scene |-> "grouped",           title |-> "",          subtitle |-> "",           height |-> 10] >>

NoCard == 0
CardIds == DOMAIN steps

\* document-coordinate top edge of card i; the cards follow a lead-in
\* section and are laid out one under the other with a fixed pitch
LeadIn == 7
Pitch == 4
CardTop(i) == LeadIn + Pitch * (i - 1)

\* scroll offsets and viewport heights the events are drawn from
ScrollStep == 4
MaxScrollIndex == 14
ScrollYs == { ScrollStep * k : k \in 0..MaxScrollIndex }
InnerHeights == { 4, 8 }
\* intersectionRatio of the delivered entry, in percent
Ratios == { 0, 29, 30 }

\* -------------------------------------------------------------- variables
VARIABLES
  mode,              \* "none" | "scatter" | "bars"
  fearRows,          \* "null" | "loaded"
  loads,             \* drawFearBars calls suspended at await d3.csv(...)
  quadrantsAdded,
  isHorrorFocused,
  title,             \* text of #chart-title
  subtitle,          \* text of #chart-subtitle
  fineNoteHidden,    \* .fine-note carries class note-hidden
  methodologyBtn,    \* style.display of #methodology-btn
  bubbles,           \* .genre-bubble circles in gChart, by genre
  labels,            \* .genre-label texts in gChart, by genre
  rects,             \* bar rects in gChart, by fear label
  guides,            \* number of quadrant guide sets on gAxis
  guidesOpacity,     \* inline opacity of the guide elements
  axes,              \* scales the axes on gAxis show
  centerLabel,       \* .horror-center-label: "absent" | "present" | "fading"
  layerOpacity,      \* opacity gChart and gAxis are set or heading to
  legendOpacity,     \* opacity gLegend is set or heading to
  zoomEnds,          \* the hide transitions of zoomToHorror are running
  restoreQueued,     \* restore transitions created over running hide
                     \* transitions and not yet started
  fades,             \* root transitions not yet ended, oldest first
  timers,            \* setTimeout callbacks not yet fired, oldest first
  armed,
  active,            \* index of the active card, NoCard for null
  isActive,          \* the cards whose classList holds is-active
  baselineRendered,
  scrollY,
  innerHeight,
  entry,             \* the IntersectionObserverEntry last delivered
  lastScene,         \* the last recognised scene other than noop passed to go
  seqPos,            \* progress through baseline, horror, bars, baseline
  tooltip,           \* the shared .tooltip: opacity, content, position
  movies,            \* rows of the titles file as d3.json delivers them
  exploded,          \* one membership row per title and listed genre
  rolled,            \* the rollup by genre, in insertion order
  aggregates,        \* the rollup after the count filter
  plotted,           \* genres joined to the bubbles and to the labels
  fearCsv,           \* Fear_Category of the rows of the fear file
  counts,            \* the bars of drawFearBars, top to bottom
  groupedCounts,     \* the bars of drawFearBarsGrouped, top to bottom
  pc                 \* position in the data preparation

chartVars ==
  << mode, fearRows, loads, quadrantsAdded, isHorrorFocused, title, subtitle,
     fineNoteHidden, methodologyBtn, bubbles, labels, rects, guides,
     guidesOpacity, axes, centerLabel, layerOpacity, legendOpacity, zoomEnds,
     restoreQueued,
     fades, timers, tooltip >>

vars ==
  << mode, fearRows, loads, quadrantsAdded, isHorrorFocused, title, subtitle,
     fineNoteHidden, methodologyBtn, bubbles, labels, rects, guides,
     guidesOpacity, axes, centerLabel, layerOpacity, legendOpacity, zoomEnds,
     restoreQueued,
     fades, timers, armed, active, isActive, baselineRendered, scrollY,
     innerHeight,
     entry, lastScene, seqPos, tooltip, movies, exploded, rolled, aggregates,
     plotted, fearCsv, counts, groupedCounts, pc >>

\* the variables of the data preparation
dataVars ==
  << movies, exploded, rolled, aggregates, plotted, fearCsv, counts,
     groupedCounts, pc >>

\* the variables of the page
pageVars ==
  << mode, fearRows, loads, quadrantsAdded, isHorrorFocused, title, subtitle,
     fineNoteHidden, methodologyBtn, bubbles, labels, rects, guides,
     guidesOpacity, axes, centerLabel, layerOpacity, legendOpacity, zoomEnds,
     restoreQueued,
     fades, timers, armed, active, isActive, baselineRendered, scrollY,
     innerHeight,
     entry, lastScene, seqPos, tooltip >>

\* the program state as one record; trace is the log of the calls made while
\* an event is handled, empty when the handler starts
Cur ==
  [ mode |-> mode, fearRows |-> fearRows, loads |-> loads,
    quadrantsAdded |-> quadrantsAdded, isHorrorFocused |-> isHorrorFocused,
    title |-> title, subtitle |-> subtitle, fineNoteHidden |-> fineNoteHidden,
    methodologyBtn |-> methodologyBtn, bubbles |-> bubbles, labels |-> labels,
    rects |-> rects, guides |-> guides, guidesOpacity |-> guidesOpacity,
    axes |-> axes, centerLabel |-> centerLabel, layerOpacity |-> layerOpacity,
    legendOpacity |-> legendOpacity, zoomEnds |-> zoomEnds,
    restoreQueued |-> restoreQueued, fades |-> fades,
    timers |-> timers, armed |-> armed, active |-> active,
    isActive |-> isActive,
    baselineRendered |-> baselineRendered, tooltip |-> tooltip,
    trace |-> << >> ]

Commit(s) ==
  /\ mode' = s.mode
  /\ fearRows' = s.fearRows
  /\ loads' = s.loads
  /\ quadrantsAdded' = s.quadrantsAdded
  /\ isHorrorFocused' = s.isHorrorFocused
  /\ title' = s.title
  /\ subtitle' = s.subtitle
  /\ fineNoteHidden' = s.fineNoteHidden
  /\ methodologyBtn' = s.methodologyBtn
  /\ bubbles' = s.bubbles
  /\ labels' = s.labels
  /\ rects' = s.rects
  /\ guides' = s.guides
  /\ guidesOpacity' = s.guidesOpacity
  /\ axes' = s.axes
  /\ centerLabel' = s.centerLabel
  /\ layerOpacity' = s.layerOpacity
  /\ legendOpacity' = s.legendOpacity
  /\ zoomEnds' = s.zoomEnds
  /\ restoreQueued' = s.restoreQueued
  /\ fades' = s.fades
  /\ timers' = s.timers
  /\ armed' = s.armed
  /\ active' = s.active
  /\ isActive' = s.isActive
  /\ baselineRendered' = s.baselineRendered
  /\ tooltip' = s.tooltip
  /\ UNCHANGED dataVars

\* record a call in the log of the event being handled
Log(s, op, arg) == [s EXCEPT !.trace = Append(@, [op |-> op, arg |-> arg])]

\* ------------------------------------------------------- fine note, button
showFineNote(s) == Log([s EXCEPT !.fineNoteHidden = FALSE], "showFineNote", "")
hideFineNote(s) == Log([s EXCEPT !.fineNoteHidden = TRUE], "hideFineNote", "")

showMethodologyBtn(s) ==
  Log([s EXCEPT !.methodologyBtn = "block"], "showMethodologyBtn", "")
hideMethodologyBtn(s) ==
  Log([s EXCEPT !.methodologyBtn = "none"], "hideMethodologyBtn", "")

\* ---------------------------------------------------------------- crossfades
\* d3.transition() schedules a transition on the document root.  The root
\* holds one active transition at a time: a root transition that starts
\* interrupts the one running, whose "end" listeners are then not called
\* (FadeInterrupt below).  cb is the afterOnce callback: "bars" for the bars
\* scene, the supergroup for a bars_* scene, "" for none.
crossfadeOut(s, cb) ==
  Log([s EXCEPT !.fades = Append(@, [cb |-> cb, called |-> FALSE]),
                !.layerOpacity = 0,
                !.legendOpacity = 0],
      "crossfadeOut", cb)

crossfadeIn(s) ==
  Log([s EXCEPT !.fades = Append(@, [cb |-> "", called |-> FALSE]),
                !.layerOpacity = 1],
      "crossfadeIn", "")

\* ------------------------------------------------------------------- scatter
TopN == 10
\* [...genreData].sort(by total_views descending).slice(0, 10)
top10 ==
  { g \in Genres :
      Cardinality({ h \in Genres : Datum(h).total_views > Datum(g).total_views })
        < TopN }

FreshBubble ==
  [ dimmed |-> FALSE, pe |-> "css", display |-> "css", opacity |-> "css",
    at |-> "base", r |-> "base", fill |-> "css" ]
FreshLabel ==
  [ dimmed |-> FALSE, pe |-> "css", display |-> "css", opacity |-> "css",
    at |-> "base" ]
FreshRect == [ dimmed |-> FALSE, pe |-> "css" ]
NoMarks == << >>

\* variant of drawScatter that leaves quadrantsAdded as it was
drawScatterKeepsFlag(s) ==
  LET a == showFineNote(Log(s, "drawScatter", ""))
  IN [a EXCEPT !.mode = "scatter",
               !.bubbles = [g \in Genres |-> FreshBubble],
               !.labels = [g \in top10 |-> FreshLabel],
               !.rects = NoMarks,
               !.guides = 0,
               !.guidesOpacity = "css",
               !.axes = "base",
               !.tooltip = [@ EXCEPT !.opacity = 0],
               !.zoomEnds = FALSE,
               !.restoreQueued = FALSE]

drawScatter(s) ==
  LET a == showFineNote(Log(s, "drawScatter", ""))
  IN [a EXCEPT !.mode = "scatter",
               !.bubbles = [g \in Genres |-> FreshBubble],
               !.labels = [g \in top10 |-> FreshLabel],
               !.rects = NoMarks,
               !.guides = 0,
               !.guidesOpacity = "css",
               !.axes = "base",
               !.tooltip = [@ EXCEPT !.opacity = 0],
               !.zoomEnds = FALSE,
               !.restoreQueued = FALSE,
               !.quadrantsAdded = FALSE]

\* what one call appends to the axis layer: two .quadrant-line, four
\* .quadrant-label, two .quadrant-axis-label
QuadrantGuideSet == [line |-> 2, label |-> 4, axisLabel |-> 2]

\* the guide elements on the axis layer of record s
GuideElements(s) ==
  [k \in DOMAIN QuadrantGuideSet |-> s.guides * QuadrantGuideSet[k]]

\* variant of addQuadrantsIfNeeded without the quadrantsAdded test
addQuadrantsAlways(s) ==
  LET a == Log(s, "addQuadrantsIfNeeded", "")
  IN [a EXCEPT !.quadrantsAdded = TRUE, !.guides = @ + 1]

addQuadrantsIfNeeded(s) ==
  LET a == Log(s, "addQuadrantsIfNeeded", "")
  IN IF a.quadrantsAdded THEN a
     ELSE [a EXCEPT !.quadrantsAdded = TRUE, !.guides = @ + 1]

\* variant of the dimming that sets the class and leaves pointer-events
SetDimClassOnly(marks, dimSet) ==
  [m \in DOMAIN marks |-> [marks[m] EXCEPT !.dimmed = m \in dimSet]]

\* classed("dimmed", f) and style("pointer-events", f ? "none" : "all") over
\* a selection of marks; dimSet holds the data for which f is true
SetDim(marks, dimSet) ==
  [m \in DOMAIN marks |->
     [marks[m] EXCEPT !.dimmed = m \in dimSet,
                      !.pe = IF m \in dimSet THEN "none" ELSE "all"]]

\* the marks of the chart carrying the class "dimmed"
Dimmed(marks) == { m \in DOMAIN marks : marks[m].dimmed }

notHorror(g) == toLowerCase(g) # "horror"

\* variant of focusHorror that compares the genre without toLowerCase
focusHorrorCaseSensitive(s, on) ==
  LET a == Log(s, "focusHorror", IF on THEN "true" ELSE "false")
      dim == { g \in Genres : on /\ g # "horror" }
  IN [a EXCEPT !.isHorrorFocused = on,
               !.title = IF on THEN TitleHorror ELSE TitleHit,
               !.bubbles = SetDim(@, dim),
               !.labels = SetDim(@, dim)]

focusHorror(s, on) ==
  LET a == Log(s, "focusHorror", IF on THEN "true" ELSE "false")
      dim == { g \in Genres : on /\ notHorror(g) }
  IN [a EXCEPT !.isHorrorFocused = on,
               !.title = IF on THEN TitleHorror ELSE TitleHit,
               !.bubbles = SetDim(@, dim),
               !.labels = SetDim(@, dim)]

shouldDim(quadrant, g) ==
  CASE quadrant = "high-views" ->
         ~ (toLowerCase(g) \in { "comedy", "action", "drama" })
    [] quadrant = "critical-darlings" ->
         RatingAtMostMean(g) \/ ViewsAtLeastMean(g)
    [] quadrant = "cult-corner" -> toLowerCase(g) # "horror"
    [] OTHER -> FALSE

\* variant of focusQuadrant that adds the class and never takes it off
focusQuadrantStacking(s, quadrant) ==
  LET a == Log(s, "focusQuadrant", quadrant)
      dim == { g \in Genres : shouldDim(quadrant, g) }
  IN [a EXCEPT !.bubbles = SetDim(@, dim \cup Dimmed(a.bubbles)),
               !.labels = SetDim(@, dim \cup Dimmed(a.labels))]

focusQuadrant(s, quadrant) ==
  LET a == Log(s, "focusQuadrant", quadrant)
      dim == { g \in Genres : shouldDim(quadrant, g) }
  IN [a EXCEPT !.bubbles = SetDim(@, dim),
               !.labels = SetDim(@, dim)]

\* ---------------------------------------------------------------- horror zoom
\* The 800 ms transitions of zoomToHorror are recorded by their targets; the
\* "end" listeners that set display:none run later (ZoomHideEnd) unless a
\* newer transition on the same marks has interrupted them.
zoomToHorror(s) ==
  LET a == Log(s, "zoomToHorror", "")
  IN IF ~ HasHorror THEN a
     ELSE [a EXCEPT
             !.bubbles = [g \in DOMAIN @ |->
                            IF notHorror(g)
                            THEN [@[g] EXCEPT !.opacity = "0"]
                            ELSE [@[g] EXCEPT !.at = "zoom", !.r = "200",
                                              !.fill = "#1D1C1C",
                                              !.opacity = "1",
                                              !.display = "block"]],
             !.labels = [g \in DOMAIN @ |-> [@[g] EXCEPT !.opacity = "0"]],
             !.zoomEnds = TRUE,
             !.restoreQueued = FALSE,
             !.axes = "zoom",
             !.centerLabel = "present",
             !.legendOpacity = 0,
             !.guidesOpacity = IF a.guides > 0 THEN "0" ELSE @]

\* variant of the restore that leaves the fill of the zoomed bubble
restoreKeepsFill(s) ==
  LET a == Log(s, "restoreFromHorrorZoom", "")
  IN [a EXCEPT
        !.bubbles = [g \in DOMAIN @ |->
                       [@[g] EXCEPT !.display = "block", !.opacity = "0.8",
                                    !.at = "base", !.r = "base"]],
        !.labels = [g \in DOMAIN @ |->
                      [@[g] EXCEPT !.display = "block", !.opacity = "1",
                                   !.at = "base"]],
        !.restoreQueued = a.zoomEnds,
        !.centerLabel = IF @ = "absent" THEN "absent" ELSE "fading",
        !.axes = IF @ = "none" THEN "none" ELSE "base",
        !.legendOpacity = 1,
        !.guidesOpacity = IF a.quadrantsAdded /\ a.guides > 0 THEN "1" ELSE @]

\* variant of the restore that also clears the dimming of the marks
restoreClearsDim(s) ==
  LET a == Log(s, "restoreFromHorrorZoom", "")
  IN [a EXCEPT
        !.bubbles = [g \in DOMAIN @ |->
                       [@[g] EXCEPT !.display = "block", !.opacity = "0.8",
                                    !.at = "base", !.r = "base",
                                    !.fill = "css", !.dimmed = FALSE,
                                    !.pe = "all"]],
        !.labels = [g \in DOMAIN @ |->
                      [@[g] EXCEPT !.display = "block", !.opacity = "1",
                                   !.at = "base", !.dimmed = FALSE,
                                   !.pe = "all"]],
        !.restoreQueued = a.zoomEnds,
        !.centerLabel = IF @ = "absent" THEN "absent" ELSE "fading",
        !.axes = IF @ = "none" THEN "none" ELSE "base",
        !.legendOpacity = 1,
        !.guidesOpacity = IF a.quadrantsAdded /\ a.guides > 0 THEN "1" ELSE @]

\* The 600 ms transitions of restoreFromHorrorZoom start on every bubble and
\* label, so they interrupt the hide transitions of a zoom still running;
\* the centered label is removed when its fade ends (CenterLabelRemoved).
restoreFromHorrorZoom(s) ==
  LET a == Log(s, "restoreFromHorrorZoom", "")
  IN [a EXCEPT
        !.bubbles = [g \in DOMAIN @ |->
                       [@[g] EXCEPT !.display = "block", !.opacity = "0.8",
                                    !.at = "base", !.r = "base",
                                    !.fill = "css"]],
        !.labels = [g \in DOMAIN @ |->
                      [@[g] EXCEPT !.display = "block", !.opacity = "1",
                                   !.at = "base"]],
        !.restoreQueued = a.zoomEnds,
        !.centerLabel = IF @ = "absent" THEN "absent" ELSE "fading",
        !.axes = IF @ = "none" THEN "none" ELSE "base",
        !.legendOpacity = 1,
        !.guidesOpacity = IF a.quadrantsAdded /\ a.guides > 0 THEN "1" ELSE @]

\* ----------------------------------------------------------------------- bars
\* the part of drawFearBars after the await: runs at once when fearRows is
\* set, otherwise when the d3.csv promise resolves (LoadDone)
\* variant of the bars draw that also clears the overlay flags
drawFearBarsRestClearing(s) ==
  [s EXCEPT !.mode = "bars",
            !.tooltip = [@ EXCEPT !.opacity = 0],
            !.bubbles = NoMarks,
            !.labels = NoMarks,
            !.guides = 0,
            !.guidesOpacity = "css",
            !.zoomEnds = FALSE,
            !.restoreQueued = FALSE,
            !.centerLabel = "absent",
            !.rects = [f \in FEAR_SET |-> FreshRect],
            !.axes = "bars",
            !.title = TitleBars,
            !.subtitle = SubtitleBars,
            !.quadrantsAdded = FALSE,
            !.isHorrorFocused = FALSE]

drawFearBarsRest(s) ==
  [s EXCEPT !.mode = "bars",
            !.tooltip = [@ EXCEPT !.opacity = 0],
            !.bubbles = NoMarks,
            !.labels = NoMarks,
            !.guides = 0,
            !.guidesOpacity = "css",
            !.zoomEnds = FALSE,
            !.restoreQueued = FALSE,
            !.centerLabel = "absent",
            !.rects = [f \in FEAR_SET |-> FreshRect],
            !.axes = "bars",
            !.title = TitleBars,
            !.subtitle = SubtitleBars]

\* variant of drawFearBars that sets the mode and clears the layers before
\* it waits for the rows
drawFearBarsEager(s) ==
  LET a == drawFearBarsRest(hideFineNote(Log(s, "drawFearBars", "")))
  IN IF s.fearRows = "null"
     THEN Log([a EXCEPT !.loads = @ + 1], "d3.csv", "")
     ELSE a

drawFearBars(s) ==
  LET a == hideFineNote(Log(s, "drawFearBars", ""))
  IN IF a.fearRows = "null"
     THEN Log([a EXCEPT !.loads = @ + 1], "d3.csv", "")
     ELSE drawFearBarsRest(a)

focusBars(s, focusCount) ==
  LET a == Log(s, "focusBars", focusCount)
  IN IF a.mode # "bars" THEN a
     ELSE [a EXCEPT !.rects = [f \in DOMAIN @ |->
                                 [@[f] EXCEPT !.dimmed = FALSE, !.pe = "all"]]]

focusBarsBySupergroup(s, supergroupName) ==
  LET a == Log(s, "focusBarsBySupergroup", supergroupName)
      dim == { f \in FEAR_SET : FEAR_GROUP_MAP(f) # supergroupName }
  IN IF a.mode # "bars" THEN a
     ELSE IF supergroupName \in { "null", "none" }
     THEN [a EXCEPT !.rects = [f \in DOMAIN @ |->
                                 [@[f] EXCEPT !.dimmed = FALSE, !.pe = "all"]]]
     ELSE [a EXCEPT !.rects = SetDim(@, dim)]

\* the afterOnce callback the bars scenes pass to crossfadeOut
afterOnce(s, cb) ==
  LET a == crossfadeIn(drawFearBars(Log(s, "afterOnce", cb)))
  IN IF cb = "bars" THEN a
     ELSE Log([a EXCEPT !.timers = Append(@, cb)], "setTimeout", cb)

\* variant of the bars branches without the mode === "bars" shortcut
goBarsAlwaysCrossfade(s, cb) == crossfadeOut(showMethodologyBtn(s), cb)

\* the two branches every bars scene has
goBars(s, cb) ==
  LET a == showMethodologyBtn(s)
  IN IF a.mode = "bars"
     THEN IF cb = "bars" THEN focusBars(a, "null")
          ELSE focusBarsBySupergroup(a, cb)
     ELSE crossfadeOut(a, cb)

\* ------------------------------------------------------------ title utilities
applyStepTitle(s, stepEl) ==
  LET t == steps[stepEl].title
  IN IF t = "" THEN s
     ELSE IF s.mode = "bars" THEN s
     ELSE [s EXCEPT !.title = t]

applyStepSubtitle(s, stepEl) ==
  LET t == steps[stepEl].subtitle
  IN IF s.mode = "bars" THEN s
     ELSE IF t # "" THEN [s EXCEPT !.subtitle = t]
     ELSE s

\* --------------------------------------------------------------------- router
\* variant of the baseline branch without focusHorror(false)
goBaselineKeepFocus(s) ==
  LET a == restoreFromHorrorZoom(hideMethodologyBtn(s))
      b == IF a.mode # "scatter"
           THEN drawScatter([a EXCEPT !.title = TitleHit])
           ELSE showFineNote(a)
      c == addQuadrantsIfNeeded(b)
  IN focusQuadrant(c, "none")

goBaseline(s) ==
  LET a == restoreFromHorrorZoom(hideMethodologyBtn(s))
      b == IF a.mode # "scatter"
           THEN drawScatter([a EXCEPT !.title = TitleHit])
           ELSE showFineNote(a)
      c == addQuadrantsIfNeeded(b)
      d == IF c.isHorrorFocused THEN focusHorror(c, FALSE) ELSE c
  IN focusQuadrant(d, "none")

goQuadrants(s) ==
  LET a == restoreFromHorrorZoom(hideMethodologyBtn(s))
      b == IF a.mode # "scatter" THEN drawScatter(a) ELSE a
      c == addQuadrantsIfNeeded(showFineNote(b))
      d == IF c.isHorrorFocused THEN focusHorror(c, FALSE) ELSE c
  IN focusQuadrant(d, "none")

goHighViews(s) ==
  LET a == restoreFromHorrorZoom(hideMethodologyBtn(s))
      b == IF a.mode # "scatter" THEN drawScatter(a) ELSE a
      c == addQuadrantsIfNeeded(showFineNote(b))
      d == IF c.isHorrorFocused THEN focusHorror(c, FALSE) ELSE c
  IN focusQuadrant(d, "high-views")

goCriticalDarlings(s) ==
  LET a == restoreFromHorrorZoom(hideMethodologyBtn(s))
      b == IF a.mode # "scatter" THEN drawScatter(a) ELSE a
      c == addQuadrantsIfNeeded(showFineNote(b))
  IN focusQuadrant(c, "critical-darlings")

\* variant of the horror branch that restores after redrawing
goHorrorLateRestore(s) ==
  LET a == hideMethodologyBtn(s)
      b == IF a.mode # "scatter" THEN drawScatter(a) ELSE a
      c == addQuadrantsIfNeeded(showFineNote(restoreFromHorrorZoom(b)))
  IN focusHorror(focusQuadrant(c, "none"), TRUE)

goHorror(s) ==
  LET a == restoreFromHorrorZoom(hideMethodologyBtn(s))
      b == IF a.mode # "scatter" THEN drawScatter(a) ELSE a
      c == addQuadrantsIfNeeded(showFineNote(b))
  IN focusHorror(focusQuadrant(c, "none"), TRUE)

goHorrorZoom(s) ==
  LET a == hideMethodologyBtn(s)
      b == IF a.mode # "scatter"
           THEN addQuadrantsIfNeeded(drawScatter(a))
           ELSE a
  IN zoomToHorror(hideFineNote(b))

\* variant of the router whose final else falls back to the baseline scene
goElseBaseline(s, scene) ==
  LET a == Log(s, "go", scene)
  IN CASE scene = "baseline" -> goBaseline(a)
       [] scene = "quadrants" -> goQuadrants(a)
       [] scene = "high-views" -> goHighViews(a)
       [] scene = "critical-darlings" -> goCriticalDarlings(a)
       [] scene = "horror" -> goHorror(a)
       [] scene = "horror-zoom" -> goHorrorZoom(a)
       [] scene = "bars" -> goBars(a, "bars")
       [] scene = "bars_psychological" -> goBars(a, Psychological)
       [] scene = "bars_body" -> goBars(a, Body)
       [] scene = "bars_societal" -> goBars(a, Societal)
       [] scene = "bars_cosmic" -> goBars(a, Cosmic)
       [] OTHER -> goBaseline(a)

go(s, scene) ==
  LET a == Log(s, "go", scene)
  IN CASE scene = "baseline" -> goBaseline(a)
       [] scene = "quadrants" -> goQuadrants(a)
       [] scene = "high-views" -> goHighViews(a)
       [] scene = "critical-darlings" -> goCriticalDarlings(a)
       [] scene = "horror" -> goHorror(a)
       [] scene = "horror-zoom" -> goHorrorZoom(a)
       [] scene = "bars" -> goBars(a, "bars")
       [] scene = "bars_psychological" -> goBars(a, Psychological)
       [] scene = "bars_body" -> goBars(a, Body)
       [] scene = "bars_societal" -> goBars(a, Societal)
       [] scene = "bars_cosmic" -> goBars(a, Cosmic)
       [] OTHER -> a

\* ------------------------------------------------------- scroll-sync engine
Abs(n) == IF n < 0 THEN 0 - n ELSE n

\* getBoundingClientRect of card i at scroll offset y
RectTop(i, y) == CardTop(i) - y
RectBottom(i, y) == CardTop(i) - y + steps[i].height

\* twice |center - mid|: center = r.top + r.height / 2, mid = innerHeight / 2
Dist2(i, y, h) == Abs(2 * RectTop(i, y) + steps[i].height - h)

\* variant of the loop with dist <= bestDist: the last card wins a tie
RECURSIVE ScanFromLastWins(_, _, _, _, _)
ScanFromLastWins(i, best, bestDist, y, h) ==
  IF i > Len(steps) THEN best
  ELSE IF RectBottom(i, y) <= 0 \/ RectTop(i, y) >= h
       THEN ScanFromLastWins(i + 1, best, bestDist, y, h)
       ELSE IF best = NoCard \/ Dist2(i, y, h) <= bestDist
            THEN ScanFromLastWins(i + 1, i, Dist2(i, y, h), y, h)
            ELSE ScanFromLastWins(i + 1, best, bestDist, y, h)

\* the steps.forEach loop from card i on; best = NoCard stands for
\* bestDist = Infinity
RECURSIVE ScanFrom(_, _, _, _, _)
ScanFrom(i, best, bestDist, y, h) ==
  IF i > Len(steps) THEN best
  ELSE IF RectBottom(i, y) <= 0 \/ RectTop(i, y) >= h
       THEN ScanFrom(i + 1, best, bestDist, y, h)
       ELSE IF best = NoCard \/ Dist2(i, y, h) < bestDist
            THEN ScanFrom(i + 1, i, Dist2(i, y, h), y, h)
            ELSE ScanFrom(i + 1, best, bestDist, y, h)

Best(y, h) == ScanFrom(1, NoCard, 0, y, h)

\* active.getAttribute("data-scene") || "noop"
SceneOf(i) == IF steps[i].scene = "" THEN "noop" ELSE steps[i].scene

\* variant without the early return on !armed
setActiveByCenterUnguarded(s, y, h) ==
  LET a == Log(s, "setActiveByCenter", "")
      best == Best(y, h)
  IN IF best # NoCard /\ best # a.active
     THEN LET b == [a EXCEPT !.active = best,
                             !.isActive = (@ \ {a.active}) \cup {best}]
              c == applyStepSubtitle(applyStepTitle(b, best), best)
          IN go(c, SceneOf(best))
     ELSE a

\* variant that drops the active card when no card intersects the viewport
setActiveByCenterClearing(s, y, h) ==
  LET a == Log(s, "setActiveByCenter", "")
      best == Best(y, h)
  IN IF ~ a.armed THEN a
     ELSE IF best = NoCard THEN [a EXCEPT !.active = NoCard]
     ELSE IF best # a.active
     THEN LET b == [a EXCEPT !.active = best,
                             !.isActive = (@ \ {a.active}) \cup {best}]
              c == applyStepSubtitle(applyStepTitle(b, best), best)
          IN go(c, SceneOf(best))
     ELSE a

\* variant without the best !== active test
setActiveByCenterAlways(s, y, h) ==
  LET a == Log(s, "setActiveByCenter", "")
      best == Best(y, h)
  IN IF ~ a.armed THEN a
     ELSE IF best # NoCard
     THEN LET b == [a EXCEPT !.active = best,
                             !.isActive = (@ \ {a.active}) \cup {best}]
              c == applyStepSubtitle(applyStepTitle(b, best), best)
          IN go(c, SceneOf(best))
     ELSE a

\* variant that leaves the marker on the card that was active
setActiveByCenterKeepsMarker(s, y, h) ==
  LET a == Log(s, "setActiveByCenter", "")
      best == Best(y, h)
  IN IF ~ a.armed THEN a
     ELSE IF best # NoCard /\ best # a.active
     THEN LET b == [a EXCEPT !.active = best,
                             !.isActive = @ \cup {best}]
              c == applyStepSubtitle(applyStepTitle(b, best), best)
          IN go(c, SceneOf(best))
     ELSE a

setActiveByCenter(s, y, h) ==
  LET a == Log(s, "setActiveByCenter", "")
      best == Best(y, h)
  IN IF ~ a.armed THEN a
     ELSE IF best # NoCard /\ best # a.active
     THEN LET b == [a EXCEPT !.active = best,
                             !.isActive = (@ \ {a.active}) \cup {best}]
              c == applyStepSubtitle(applyStepTitle(b, best), best)
          IN go(c, SceneOf(best))
     ELSE a

\* the intersection ratio, in percent, from which the chart is armed
ArmRatio == 30

\* variant without the baselineRendered flag
observerCallbackRepeating(s, e, y, h) ==
  LET a == Log(s, "observerCallback", "")
      b == IF e.isIntersecting
           THEN addQuadrantsIfNeeded(
                  drawScatter([a EXCEPT !.baselineRendered = TRUE,
                                        !.title = TitleHit]))
           ELSE a
      c == [b EXCEPT !.armed = e.isIntersecting
                                 /\ e.intersectionRatio >= ArmRatio]
  IN IF c.armed THEN setActiveByCenter(c, y, h) ELSE c

\* the IntersectionObserver callback for entry e
observerCallback(s, e, y, h) ==
  LET a == Log(s, "observerCallback", "")
      b == IF ~ a.baselineRendered /\ e.isIntersecting
           THEN addQuadrantsIfNeeded(
                  drawScatter([a EXCEPT !.baselineRendered = TRUE,
                                        !.title = TitleHit]))
           ELSE a
      c == [b EXCEPT !.armed = e.isIntersecting
                                 /\ e.intersectionRatio >= ArmRatio]
  IN IF c.armed THEN setActiveByCenter(c, y, h) ELSE c

\* -------------------------------------------------------------------- actions
\* the state main() leaves behind: nothing drawn, not armed, no active card
Initial ==
  [ mode |-> "none", fearRows |-> "null", loads |-> 0,
    quadrantsAdded |-> FALSE, isHorrorFocused |-> FALSE,
    title |-> TitleInitial, subtitle |-> SubtitleInitial,
    fineNoteHidden |-> FALSE, methodologyBtn |-> "css",
    bubbles |-> NoMarks, labels |-> NoMarks, rects |-> NoMarks,
    guides |-> 0, guidesOpacity |-> "css", axes |-> "none",
    centerLabel |-> "absent", layerOpacity |-> 1, legendOpacity |-> 1,
    zoomEnds |-> FALSE, restoreQueued |-> FALSE, fades |-> << >>, timers |-> << >>,
    armed |-> FALSE, active |-> NoCard, isActive |-> {},
    baselineRendered |-> FALSE,
    scrollY |-> 0, innerHeight |-> 8,
    tooltip |-> [opacity |-> 0, html |-> << >>, left |-> 0, top |-> 0],
    trace |-> << >> ]

PageInit ==
  /\ mode = Initial.mode
  /\ fearRows = Initial.fearRows
  /\ loads = Initial.loads
  /\ quadrantsAdded = Initial.quadrantsAdded
  /\ isHorrorFocused = Initial.isHorrorFocused
  /\ title = Initial.title
  /\ subtitle = Initial.subtitle
  /\ fineNoteHidden = Initial.fineNoteHidden
  /\ methodologyBtn = Initial.methodologyBtn
  /\ bubbles = Initial.bubbles
  /\ labels = Initial.labels
  /\ rects = Initial.rects
  /\ guides = Initial.guides
  /\ guidesOpacity = Initial.guidesOpacity
  /\ axes = Initial.axes
  /\ centerLabel = Initial.centerLabel
  /\ layerOpacity = Initial.layerOpacity
  /\ legendOpacity = Initial.legendOpacity
  /\ zoomEnds = Initial.zoomEnds
  /\ restoreQueued = Initial.restoreQueued
  /\ fades = Initial.fades
  /\ timers = Initial.timers
  /\ armed = Initial.armed
  /\ active = Initial.active
  /\ isActive = Initial.isActive
  /\ baselineRendered = Initial.baselineRendered
  /\ scrollY = Initial.scrollY
  /\ innerHeight = Initial.innerHeight
  /\ entry = [isIntersecting |-> FALSE, intersectionRatio |-> 0]
  /\ lastScene = "none"
  /\ seqPos = 0
  /\ tooltip = Initial.tooltip

\* the page once the data preparation has run: the chart works from the
\* table genreData, and the rows it was prepared from are not looked at again
Init ==
  /\ PageInit
  /\ movies = << >>
  /\ exploded = << >>
  /\ rolled = << >>
  /\ aggregates = << >>
  /\ plotted = [marks |-> {}, labels |-> {}]
  /\ fearCsv = << >>
  /\ counts = << >>
  /\ groupedCounts = << >>
  /\ pc = "done"

\* the scenes the router has a branch for
Scenes ==
  { "baseline", "quadrants", "high-views", "critical-darlings", "horror",
    "horror-zoom", "bars", "bars_psychological", "bars_body", "bars_societal",
    "bars_cosmic" }

\* nothing asynchronous is outstanding
Settled ==
  /\ fades = << >>
  /\ loads = 0
  /\ timers = << >>
  /\ ~ zoomEnds
  /\ centerLabel # "fading"

\* the scenes go was called with while handling the event logged in tr
GoCalls(tr) == SelectSeq(tr, LAMBDA c : c.op = "go")

Pattern == << "baseline", "horror", "bars", "baseline" >>

\* the bookkeeping about the router calls of the step that ends in record s
Observe(s) ==
  LET calls == GoCalls(s.trace)
  IN /\ lastScene' = IF calls # << >> /\ calls[1].arg \in Scenes
                     THEN calls[1].arg ELSE lastScene
     /\ seqPos' = IF calls = << >> THEN seqPos
                  ELSE IF Settled /\ seqPos < Len(Pattern)
                          /\ calls[1].arg = Pattern[seqPos + 1]
                       THEN seqPos + 1
                  ELSE IF Settled /\ calls[1].arg = Pattern[1] THEN 1
                  ELSE 0

\* the step stays within the bounds on outstanding work
Within(s) ==
  /\ Len(s.fades) <= MaxFades
  /\ s.loads <= MaxLoads
  /\ Len(s.timers) <= MaxTimers

Scroll(y) ==
  LET s == setActiveByCenter(Log(Cur, "scroll", ""), y, innerHeight)
  IN /\ y # scrollY
     /\ Within(s)
     /\ scrollY' = y
     /\ Commit(s)
     /\ Observe(s)
     /\ UNCHANGED << innerHeight, entry >>

Resize(h) ==
  LET s == setActiveByCenter(Log(Cur, "resize", ""), scrollY, h)
  IN /\ h # innerHeight
     /\ Within(s)
     /\ innerHeight' = h
     /\ Commit(s)
     /\ Observe(s)
     /\ UNCHANGED << scrollY, entry >>

Observer(isIntersecting, ratio) ==
  LET e == [isIntersecting |-> isIntersecting, intersectionRatio |-> ratio]
      s == observerCallback(Log(Cur, "observer", ""), e, scrollY, innerHeight)
  IN /\ ~ isIntersecting => ratio = 0
     /\ Within(s)
     /\ entry' = e
     /\ Commit(s)
     /\ Observe(s)
     /\ UNCHANGED << scrollY, innerHeight >>

\* the oldest root transition ends: its "end" listener runs
FadeEnd ==
  LET t == Head(fades)
      a == Log([Cur EXCEPT !.fades = Tail(@)], "fadeEnd", t.cb)
      s == IF t.cb # "" /\ ~ t.called THEN afterOnce(a, t.cb) ELSE a
  IN /\ fades # << >>
     /\ Within(s)
     /\ Commit(s)
     /\ Observe(s)
     /\ UNCHANGED << scrollY, innerHeight, entry >>

\* a newer root transition starts while the oldest is running: the oldest
\* is interrupted and its "end" listener never runs
FadeInterrupt ==
  LET s == Log([Cur EXCEPT !.fades = Tail(@)], "fadeInterrupt", Head(fades).cb)
  IN /\ Len(fades) >= 2
     /\ Commit(s)
     /\ Observe(s)
     /\ UNCHANGED << scrollY, innerHeight, entry >>

\* the d3.csv promise of one suspended drawFearBars call resolves
LoadDone ==
  LET a == Log([Cur EXCEPT !.loads = @ - 1, !.fearRows = "loaded"],
               "loadDone", "")
      s == drawFearBarsRest(a)
  IN /\ loads > 0
     /\ Commit(s)
     /\ Observe(s)
     /\ UNCHANGED << scrollY, innerHeight, entry >>

\* the oldest setTimeout callback fires
TimerFire ==
  LET a == Log([Cur EXCEPT !.timers = Tail(@)], "timer", Head(timers))
      s == focusBarsBySupergroup(a, Head(timers))
  IN /\ timers # << >>
     /\ Commit(s)
     /\ Observe(s)
     /\ UNCHANGED << scrollY, innerHeight, entry >>

\* the hide transitions of zoomToHorror end: display none on the faded marks
ZoomHideEnd ==
  LET a == Log(Cur, "zoomHideEnd", "")
      s == [a EXCEPT
              !.zoomEnds = FALSE,
              !.restoreQueued = FALSE,
              !.bubbles = [g \in DOMAIN @ |->
                             IF notHorror(g)
                             THEN [@[g] EXCEPT !.display = "none"]
                             ELSE @[g]],
              !.labels = [g \in DOMAIN @ |-> [@[g] EXCEPT !.display = "none"]]]
  IN /\ zoomEnds
     /\ Commit(s)
     /\ Observe(s)
     /\ UNCHANGED << scrollY, innerHeight, entry >>

\* the restore transitions start before the hide transitions have ended:
\* they interrupt them, and the "end" listeners of the hide transitions never
\* run. When a hide transition reaches its end in the frame in which the
\* restore transition would start, its "end" listener runs first (ZoomHideEnd).
RestoreStart ==
  LET s == Log([Cur EXCEPT !.zoomEnds = FALSE, !.restoreQueued = FALSE],
               "restoreStart", "")
  IN /\ restoreQueued
     /\ Commit(s)
     /\ Observe(s)
     /\ UNCHANGED << scrollY, innerHeight, entry >>

\* the fade of the centered label ends: transition.remove() removes it
CenterLabelRemoved ==
  LET s == Log([Cur EXCEPT !.centerLabel = "absent"], "centerLabelRemoved", "")
  IN /\ centerLabel = "fading"
     /\ Commit(s)
     /\ Observe(s)
     /\ UNCHANGED << scrollY, innerHeight, entry >>

\* the asynchronous completions
Completion ==
  \/ FadeEnd
  \/ LoadDone
  \/ TimerFire
  \/ ZoomHideEnd
  \/ CenterLabelRemoved

\* the scroll offset that centers card i in the initial viewport
CenterY(i) == (2 * CardTop(i) + steps[i].height - Initial.innerHeight) \div 2
\* the cards the reader jumps between in Spec: baseline, the card without
\* data-scene, horror, horror-zoom, bars, bars_body
RouterCards == { 1, 2, 5, 6, 7, 8 }
RouterYs == { CenterY(i) : i \in RouterCards }

\* Router under load: the chart stays in view (the observer only delivers
\* entries that arm it) and the viewport keeps its height, while scroll
\* events jump between the cards of RouterCards and interleave freely with
\* the completions of the transitions, loads and timers they started.
Next ==
  \/ \E y \in RouterYs : Scroll(y)
  \/ Observer(TRUE, ArmRatio)
  \/ Completion
  \/ FadeInterrupt
  \/ RestoreStart

Spec == Init /\ [][Next]_vars

\* Scroll-sync engine: every scroll offset, viewport height and observer
\* entry, delivered when the work started by the previous event has
\* completed. One root transition is pending at a time, so none is
\* interrupted.
SyncNext ==
  \/ Settled /\ \E y \in ScrollYs : Scroll(y)
  \/ Settled /\ \E h \in InnerHeights : Resize(h)
  \/ Settled /\ \E i \in BOOLEAN, ratio \in Ratios : Observer(i, ratio)
  \/ Completion

SyncSpec == Init /\ [][SyncNext]_vars

\* ================================================================== hover
\* pointer positions of the mouse events
ClientXs == { 10, 20 }

\* variant of the bubble mouseover listener without the mode test
bubbleMouseoverUnguarded(s, g) ==
  LET a == Log(s, "mouseover", g)
  IN [a EXCEPT !.tooltip = [@ EXCEPT !.opacity = 1,
                                     !.html = << "Genre:", g >>]]

\* the mouseover listener of the bubble of genre g
bubbleMouseover(s, g) ==
  LET a == Log(s, "mouseover", g)
  IN IF a.mode # "scatter" THEN a
     ELSE [a EXCEPT !.tooltip = [@ EXCEPT !.opacity = 1,
                                          !.html = << "Genre:", g >>]]

\* the mousemove listener of a bubble, the pointer at (x, x)
bubbleMousemove(s, x) ==
  LET a == Log(s, "mousemove", x)
  IN IF a.mode # "scatter" THEN a
     ELSE [a EXCEPT !.tooltip = [@ EXCEPT !.left = x + 15, !.top = x + 15]]

\* the mouseout listener of a bubble
bubbleMouseout(s) ==
  LET a == Log(s, "mouseout", "")
  IN IF a.mode = "scatter"
     THEN [a EXCEPT !.tooltip = [@ EXCEPT !.opacity = 0]]
     ELSE a

\* the listeners of the bar of fear label f
rectMouseover(s, f) ==
  LET a == Log(s, "mouseover", f)
      found == FEAR_CATEGORY_DESCRIPTIONS(f)
      description == IF found = "undefined" THEN "" ELSE found
  IN [a EXCEPT !.tooltip = [@ EXCEPT !.opacity = 1,
                                     !.html = << f, "Total movies:",
                                                 description >>]]

rectMousemove(s, x) ==
  LET a == Log(s, "mousemove", x)
  IN [a EXCEPT !.tooltip = [@ EXCEPT !.left = x + 15, !.top = x + 15]]

rectMouseout(s) ==
  LET a == Log(s, "mouseout", "")
  IN [a EXCEPT !.tooltip = [@ EXCEPT !.opacity = 0]]

\* A listener of a bubble runs: for a pointer event on a bubble of the
\* chart, or for one that was queued before the chart layer was emptied.
BubbleOver(g) ==
  /\ mode # "none"
  /\ Commit(bubbleMouseover(Cur, g))
  /\ UNCHANGED << scrollY, innerHeight, entry, lastScene, seqPos >>

BubbleMove(x) ==
  /\ mode # "none"
  /\ Commit(bubbleMousemove(Cur, x))
  /\ UNCHANGED << scrollY, innerHeight, entry, lastScene, seqPos >>

BubbleOut ==
  /\ mode # "none"
  /\ Commit(bubbleMouseout(Cur))
  /\ UNCHANGED << scrollY, innerHeight, entry, lastScene, seqPos >>

\* a listener of a bar runs for a pointer event on that bar
RectOver(f) ==
  /\ f \in DOMAIN rects
  /\ Commit(rectMouseover(Cur, f))
  /\ UNCHANGED << scrollY, innerHeight, entry, lastScene, seqPos >>

RectMove(x) ==
  /\ rects # NoMarks
  /\ Commit(rectMousemove(Cur, x))
  /\ UNCHANGED << scrollY, innerHeight, entry, lastScene, seqPos >>

RectOut ==
  /\ rects # NoMarks
  /\ Commit(rectMouseout(Cur))
  /\ UNCHANGED << scrollY, innerHeight, entry, lastScene, seqPos >>

\* the genres and fear labels the pointer visits
HoverGenres == { "Horror", "Comedy" }
HoverFears ==
  { "Contagion & Mutation", "Body Horror / Envelope Violation" }

\* Hover: the reader moves between the cards of RouterCards, each scene
\* settling before the next scroll, and points at bubbles and bars meanwhile.
HoverNext ==
  \/ Settled /\ \E y \in RouterYs : Scroll(y)
  \/ Observer(TRUE, ArmRatio)
  \/ Completion
  \/ \E g \in HoverGenres : BubbleOver(g)
  \/ \E x \in ClientXs : BubbleMove(x)
  \/ BubbleOut
  \/ \E f \in HoverFears : RectOver(f)
  \/ \E x \in ClientXs : RectMove(x)
  \/ RectOut

HoverSpec == Init /\ [][HoverNext]_vars

\* ======================================================== data preparation
\* Text fields are sequences of tokens: a word, a digit, "," , "." or " ".
\* String.prototype.split(", "): cut at every comma followed by a space
RECURSIVE SplitFrom(_, _, _)
SplitFrom(str, i, cur) ==
  IF i > Len(str) THEN << cur >>
  ELSE IF i < Len(str) /\ str[i] = "," /\ str[i + 1] = " "
       THEN << cur >> \o SplitFrom(str, i + 2, << >>)
  ELSE SplitFrom(str, i + 1, Append(cur, str[i]))

\* variant of split that cuts at every comma
RECURSIVE SplitAtComma(_, _, _)
SplitAtComma(str, i, cur) ==
  IF i > Len(str) THEN << cur >>
  ELSE IF str[i] = ","
       THEN << cur >> \o SplitAtComma(str, i + 1, << >>)
  ELSE SplitAtComma(str, i + 1, Append(cur, str[i]))

splitAnyComma(str) == SplitAtComma(str, 1, << >>)

split(str) == SplitFrom(str, 1, << >>)

\* String.prototype.trim: drop the white space at both ends
RECURSIVE trim(_)
trim(str) ==
  IF str = << >> THEN str
  ELSE IF Head(str) = " " THEN trim(Tail(str))
  ELSE IF str[Len(str)] = " " THEN trim(SubSeq(str, 1, Len(str) - 1))
  ELSE str

Digits == { "0", "1", "2", "3", "4", "5", "6", "7", "8", "9" }

Digit(c) ==
  CASE c = "0" -> 0 [] c = "1" -> 1 [] c = "2" -> 2 [] c = "3" -> 3
    [] c = "4" -> 4 [] c = "5" -> 5 [] c = "6" -> 6 [] c = "7" -> 7
    [] c = "8" -> 8 [] c = "9" -> 9

\* the value of unary plus on a string that is no numeral; the numerals of
\* the rows are never negative
NaN == -1

RECURSIVE DigitsValue(_)
DigitsValue(str) ==
  IF str = << >> THEN 0
  ELSE 10 * DigitsValue(SubSeq(str, 1, Len(str) - 1)) + Digit(str[Len(str)])

\* unary plus on a string: its value for a string of digits, else NaN
Number(str) ==
  IF \A i \in DOMAIN str : str[i] \in Digits THEN DigitsValue(str) ELSE NaN

\* +String(m.Views).replace(/,/g, "")
ParseViews(str) == Number(SelectSeq(str, LAMBDA c : c # ","))

\* +m.OMDb_imdbRating for a rating written with one decimal, in tenths
ParseRating(str) == Number(SelectSeq(str, LAMBDA c : c # "."))

\* the membership rows one title contributes
ExplodeRow(m) ==
  IF m.OMDb_Genre = << >> \/ m.Views = << >> \/ m.OMDb_imdbRating = << >>
  THEN << >>
  ELSE LET gs == split(m.OMDb_Genre)
       IN [i \in 1..Len(gs) |->
             [ genre |-> trim(gs[i]),
               views |-> ParseViews(m.Views),
               rating |-> ParseRating(m.OMDb_imdbRating) ]]

RECURSIVE ExplodeAll(_)
ExplodeAll(rows) ==
  IF rows = << >> THEN << >>
  ELSE ExplodeRow(Head(rows)) \o ExplodeAll(Tail(rows))

\* the keys of a rollup, in the order of their first occurrence
RECURSIVE KeysOf(_, _)
KeysOf(keys, seen) ==
  IF keys = << >> THEN << >>
  ELSE IF Head(keys) \in seen THEN KeysOf(Tail(keys), seen)
  ELSE << Head(keys) >> \o KeysOf(Tail(keys), seen \union { Head(keys) })

RECURSIVE SumSeq(_)
SumSeq(ns) == IF ns = << >> THEN 0 ELSE Head(ns) + SumSeq(Tail(ns))

\* the numbers d3.mean and d3.sum take into account: they skip NaN
Numbers(ns) == SelectSeq(ns, LAMBDA n : n # NaN)

\* d3.rollup(exploded, v => ({count, avg_imdb, total_views}), d => d.genre);
\* avg_imdb is the mean as the fraction num / den
Rollup(ex) ==
  LET keys == KeysOf([i \in 1..Len(ex) |-> ex[i].genre], {})
      group(g) == SelectSeq(ex, LAMBDA d : d.genre = g)
  IN [k \in 1..Len(keys) |->
        LET v == group(keys[k])
            ratings == Numbers([i \in 1..Len(v) |-> v[i].rating])
            views == Numbers([i \in 1..Len(v) |-> v[i].views])
        IN [ genre |-> keys[k],
             count |-> Len(v),
             avg_imdb |-> [num |-> SumSeq(ratings), den |-> Len(ratings)],
             total_views |-> SumSeq(views) ]]

\* variant of the count filter that keeps a genre of four titles
FilterRareFromFour(rs) == SelectSeq(rs, LAMBDA d : d.count >= 4)

\* Array.from(rolled, ...).filter(d => d.count >= 5)
FilterRare(rs) == SelectSeq(rs, LAMBDA d : d.count >= 5)

\* the genres drawScatter joins to the bubbles and to the ten labels
PlottedOf(agg) ==
  LET ds == { agg[i] : i \in DOMAIN agg }
  IN [ marks |-> { d.genre : d \in ds },
       labels |-> { d.genre : d \in
                      { d \in ds :
                          Cardinality({ e \in ds :
                                          e.total_views > d.total_views })
                            < TopN } } ]

\* ---------------------------------------------------------- radius scale
\* Math.sqrt of a fraction num / den between 0 and 1, in thousandths
SqrtThousandths(num, den) ==
  CHOOSE k \in 0..1000 :
    /\ k * k * den <= 1000000 * num
    /\ (k + 1) * (k + 1) * den > 1000000 * num

\* d3.max(genreData, d => d.count)
MaxCount(agg) ==
  CHOOSE c \in { agg[i].count : i \in DOMAIN agg } :
    \A i \in DOMAIN agg : agg[i].count <= c

\* r = d3.scaleSqrt().domain([0, max count]).range([5, 50]), in thousandths
\* of a pixel: the square root of count / max, mapped linearly onto 5..50
rScale(count, agg) ==
  5000 + (50 - 5) * SqrtThousandths(count, MaxCount(agg))

\* ---- the titles file: rows of five kinds; the complete and well-formed
\* kinds any number of times, the other two at most once
MaxCopies == 15

RowKinds ==
  << [ OMDb_Genre |-> << "Horror" >>,
       Views |-> << "1", ",", "0", "0", "0" >>,
       OMDb_imdbRating |-> << "6", ".", "0" >> ],
     [ OMDb_Genre |-> << "Horror", ",", " ", "Thriller" >>,
       Views |-> << "2", "0", "0", "0" >>,
       OMDb_imdbRating |-> << "7", ".", "0" >> ],
     [ OMDb_Genre |-> << "Horror", ",", "Thriller" >>,
       Views |-> << "5", "0", "0" >>,
       OMDb_imdbRating |-> << "8", ".", "0" >> ],
     [ OMDb_Genre |-> << >>,
       Views |-> << "9", "0", "0" >>,
       OMDb_imdbRating |-> << "9", ".", "0" >> ],
     [ OMDb_Genre |-> << "Horror" >>,
       Views |-> << "7", "0", "0" >>,
       OMDb_imdbRating |-> << "N/A" >> ] >>

Repeat(row, n) == [i \in 1..n |-> row]

GenreInit ==
  /\ PageInit
  /\ \E a \in 0..MaxCopies, b \in 0..MaxCopies, c \in 0..MaxCopies,
        blank \in 0..1, unrated \in 0..1 :
       movies = Repeat(RowKinds[1], a) \o Repeat(RowKinds[2], b)
                  \o Repeat(RowKinds[3], c) \o Repeat(RowKinds[4], blank)
                  \o Repeat(RowKinds[5], unrated)
  /\ exploded = << >>
  /\ rolled = << >>
  /\ aggregates = << >>
  /\ plotted = [marks |-> {}, labels |-> {}]
  /\ fearCsv = << >>
  /\ counts = << >>
  /\ groupedCounts = << >>
  /\ pc = "loaded"

Explode ==
  /\ pc = "loaded"
  /\ exploded' = ExplodeAll(movies)
  /\ pc' = "exploded"
  /\ UNCHANGED << movies, rolled, aggregates, plotted, fearCsv, counts,
                  groupedCounts >>
  /\ UNCHANGED pageVars

Aggregate ==
  /\ pc = "exploded"
  /\ rolled' = Rollup(exploded)
  /\ pc' = "rolled"
  /\ UNCHANGED << movies, exploded, aggregates, plotted, fearCsv, counts,
                  groupedCounts >>
  /\ UNCHANGED pageVars

Filter ==
  /\ pc = "rolled"
  /\ aggregates' = FilterRare(rolled)
  /\ pc' = "filtered"
  /\ UNCHANGED << movies, exploded, rolled, plotted, fearCsv, counts,
                  groupedCounts >>
  /\ UNCHANGED pageVars

Render ==
  /\ pc = "filtered"
  /\ plotted' = PlottedOf(aggregates)
  /\ pc' = "done"
  /\ UNCHANGED << movies, exploded, rolled, aggregates, fearCsv, counts,
                  groupedCounts >>
  /\ UNCHANGED pageVars

GenreNext == Explode \/ Aggregate \/ Filter \/ Render

\* Preparation of the scatter data, for every titles file of the bounded set
GenreSpec == GenreInit /\ [][GenreNext]_vars

\* ---------------------------------------------------------- fear counts
\* (d.Fear_Category || "").trim() as a label, "" for a blank field
FearKey(field) ==
  LET t == trim(field) IN IF Len(t) = 1 THEN t[1] ELSE ""

\* fearRows.filter(d => FEAR_SET.has((d.Fear_Category || "").trim()))
filtered(rows) == SelectSeq(rows, LAMBDA f : FearKey(f) \in FEAR_SET)

\* variant of the insertion that puts a bar above the bars of equal count
InsertAboveEqual(sorted, e) ==
  LET k == Cardinality({ i \in DOMAIN sorted : sorted[i].count > e.count })
  IN SubSeq(sorted, 1, k) \o << e >> \o SubSeq(sorted, k + 1, Len(sorted))

\* one step of the stable sort: e goes below every bar whose count is not
\* smaller (d3.descending gives 0 for equal counts, the sort keeps their order)
InsertDescending(sorted, e) ==
  LET k == Cardinality({ i \in DOMAIN sorted : sorted[i].count >= e.count })
  IN SubSeq(sorted, 1, k) \o << e >> \o SubSeq(sorted, k + 1, Len(sorted))

\* .sort((a, b) => d3.descending(a.count, b.count))
RECURSIVE SortDescending(_)
SortDescending(bars) ==
  IF bars = << >> THEN << >>
  ELSE InsertDescending(SortDescending(SubSeq(bars, 1, Len(bars) - 1)),
                        bars[Len(bars)])

\* d3.rollups(rows, v => v.length, key): one pair per key, first seen first
Rollups(keys) ==
  LET ks == KeysOf(keys, {})
  IN [k \in 1..Len(ks) |->
        [ key |-> ks[k],
          count |-> Len(SelectSeq(keys, LAMBDA x : x = ks[k])) ]]

\* the bars of drawFearBars
CountsOf(rows) ==
  LET fs == filtered(rows)
      rs == Rollups([i \in 1..Len(fs) |-> FearKey(fs[i])])
  IN SortDescending([k \in 1..Len(rs) |->
                       [fear |-> rs[k].key, count |-> rs[k].count]])

\* variant of the group lookup that misses the label the bars abbreviate
GroupKeyMissingOne(label) ==
  IF label = "Body Horror / Envelope Violation"
       \/ FEAR_GROUP_MAP(label) = "undefined"
  THEN "Unmapped" ELSE FEAR_GROUP_MAP(label)

\* FEAR_GROUP_MAP.get(...) || "Unmapped"
GroupKey(label) ==
  IF FEAR_GROUP_MAP(label) = "undefined"
  THEN "Unmapped" ELSE FEAR_GROUP_MAP(label)

\* the bars of drawFearBarsGrouped
GroupedCountsOf(rows) ==
  LET fs == filtered(rows)
      rs == Rollups([i \in 1..Len(fs) |-> GroupKey(FearKey(fs[i]))])
      ms == SelectSeq(rs, LAMBDA p : p.key # "Unmapped")
  IN SortDescending([k \in 1..Len(ms) |->
                       [group |-> ms[k].key, count |-> ms[k].count]])

\* ---- the fear file: up to MaxFearRows rows drawn from FearFields, followed
\* or not by one row for each canonical label
MaxFearRows == 4

FearFields ==
  { << "Contagion & Mutation" >>,
    << " ", "Contagion & Mutation", " " >>,
    << "Body Horror / Envelope Violation" >>,
    << "Grief & Familial Trauma" >>,
    << "Other" >>,
    << >> }

EveryLabelOnce ==
  [i \in DOMAIN FEAR_CATEGORY_NAMES |-> << FEAR_CATEGORY_NAMES[i] >>]

FearInit ==
  /\ PageInit
  /\ \E n \in 0..MaxFearRows, all \in BOOLEAN :
       \E rows \in [1..n -> FearFields] :
         fearCsv = rows \o (IF all THEN EveryLabelOnce ELSE << >>)
  /\ movies = << >>
  /\ exploded = << >>
  /\ rolled = << >>
  /\ aggregates = << >>
  /\ plotted = [marks |-> {}, labels |-> {}]
  /\ counts = << >>
  /\ groupedCounts = << >>
  /\ pc = "fears"

CountFears ==
  /\ pc = "fears"
  /\ counts' = CountsOf(fearCsv)
  /\ pc' = "counted"
  /\ UNCHANGED << movies, exploded, rolled, aggregates, plotted, fearCsv,
                  groupedCounts >>
  /\ UNCHANGED pageVars

GroupFears ==
  /\ pc = "counted"
  /\ groupedCounts' = GroupedCountsOf(fearCsv)
  /\ pc' = "grouped"
  /\ UNCHANGED << movies, exploded, rolled, aggregates, plotted, fearCsv,
                  counts >>
  /\ UNCHANGED pageVars

FearNext == CountFears \/ GroupFears

\* The bar data of both bar charts, for every fear file of the bounded set
FearSpec == FearInit /\ [][FearNext]_vars

\* ===================================================================== claims

BarsScenes ==
  { "bars", "bars_psychological", "bars_body", "bars_societal", "bars_cosmic" }

\* the chart kind a scene asks for
KindOf(scene) == IF scene \in BarsScenes THEN "bars" ELSE "scatter"

\* C1: once no crossfade callback, load or timer is pending, the rendered
\* mode is the chart kind of the last scene other than noop that the router
\* was called with (Scatter for the scatter scenes, Bars for bars, bars_*).
C1_ConvergesToLastScene ==
  (Settled /\ lastScene # "none") => mode = KindOf(lastScene)

\* C2: the fear dataset load is issued at most once in a page session: a
\* load starts only when none is in flight and none has completed.
C2_LoadIssuedAtMostOnce ==
  [][loads' > loads => (loads = 0 /\ fearRows = "null")]_vars

\* a step that takes the oldest root transition off the pending list
HeadRemoved == fades # << >> /\ fades' # fades /\ Len(fades') <= Len(fades)

\* C3: every crossfadeOut given a completion callback runs that callback
\* exactly once when its fade is over, whatever other crossfades start
\* before: a pending callback leaves the list only by being invoked.
C3_CallbackNeverSkipped ==
  [][(HeadRemoved /\ Head(fades).cb # "") => FadeEnd]_vars

\* ------------------------------------------------------ scroll-sync claims
\* the entries an IntersectionObserver callback can deliver
Entries ==
  { [isIntersecting |-> i, intersectionRatio |-> r] :
      i \in BOOLEAN, r \in Ratios }

\* what the chart is armed by
Arms(e) == e.isIntersecting /\ e.intersectionRatio >= ArmRatio

\* card i at least partially intersects a viewport of height h at offset y
Visible(i, y, h) == RectBottom(i, y) > 0 /\ RectTop(i, y) < h

\* the visible card nearest the middle of the viewport, the first in
\* document order on a tie; NoCard when no card is visible
Nearest(y, h) ==
  LET V == { i \in CardIds : Visible(i, y, h) }
  IN IF V = {} THEN NoCard
     ELSE CHOOSE i \in V :
            \A j \in V : \/ Dist2(i, y, h) < Dist2(j, y, h)
                         \/ Dist2(i, y, h) = Dist2(j, y, h) /\ i <= j

\* the viewport moved in this step: a scroll or a resize event
Moved == scrollY' # scrollY \/ innerHeight' # innerHeight

\* C4: after every observer callback armed = (isIntersecting and ratio >=
\* 0.30); while armed is false a scroll or resize event neither calls the
\* router nor changes the active card, the mode, the overlay flags, the
\* title or the subtitle.
C4_ArmedGate ==
  [][ /\ armed' = Arms(entry')
      /\ \A e \in Entries :
           observerCallback(Cur, e, scrollY, innerHeight).armed = Arms(e)
      /\ (~ armed /\ Moved) =>
           /\ UNCHANGED << active, mode, quadrantsAdded, isHorrorFocused,
                           title, subtitle >>
           /\ GoCalls(setActiveByCenter(Cur, scrollY', innerHeight').trace)
                = << >> ]_vars

\* the chart is disarmed, and the viewport has moved to where another card
\* than the active one is nearest
C4_Witness ==
  /\ ~ armed
  /\ baselineRendered
  /\ active # NoCard
  /\ Nearest(scrollY, innerHeight) \notin { NoCard, active }

\* C5: when armed, setActiveByCenter selects the visible card whose center
\* is nearest the middle of the viewport, the first in document order on a
\* tie, whatever card was active before (and so whatever position the
\* viewport came from); with no card visible the active card is kept.
C5_SelectsNearest ==
  armed =>
    \A a \in { NoCard } \cup CardIds :
      setActiveByCenter([Cur EXCEPT !.active = a], scrollY, innerHeight).active
        = IF Nearest(scrollY, innerHeight) = NoCard THEN a
          ELSE Nearest(scrollY, innerHeight)

\* armed, with two visible cards at the same minimal distance: the earlier
\* one is active
C5_Witness ==
  /\ armed
  /\ \E i, j \in CardIds :
       /\ i < j
       /\ Visible(i, scrollY, innerHeight)
       /\ Visible(j, scrollY, innerHeight)
       /\ Dist2(i, scrollY, innerHeight) = Dist2(j, scrollY, innerHeight)
       /\ i = Nearest(scrollY, innerHeight)
       /\ active = i

\* C6 as stated: in every reachable state the active card is the nearest
\* visible card.
C6_ActiveAlwaysNearest == active = Nearest(scrollY, innerHeight)

\* C6 amended: whenever the chart is armed and some card is visible, the
\* active card is the nearest visible card; a step after which the chart is
\* not armed, or no card is visible, leaves the active card as it was.
C6_ActiveNearestWhenArmed ==
  [][ IF armed' /\ Nearest(scrollY', innerHeight') # NoCard
      THEN active' = Nearest(scrollY', innerHeight')
      ELSE active' = active ]_vars

\* armed at a position where no card is visible: the active card is kept
C6_Witness ==
  /\ armed
  /\ Nearest(scrollY, innerHeight) = NoCard
  /\ active # NoCard

\* the router calls an event must make: one, with the scene of the nearest
\* card or "noop", when the chart is armed after the event and the nearest
\* card is not the active one; none otherwise
RouterCallsDue(isArmed, y, h) ==
  LET n == Nearest(y, h)
  IN IF isArmed /\ n # NoCard /\ n # active
     THEN << [op |-> "go",
              arg |-> IF steps[n].scene = "" THEN "noop" ELSE steps[n].scene] >>
     ELSE << >>

\* C7: a scroll, resize or observer event calls the router exactly once
\* when the selected card differs from the active card, with the card's
\* data-scene or "noop", and not at all when it is the active card.
C7_RouterOncePerChange ==
  /\ \A y \in ScrollYs :
       GoCalls(setActiveByCenter(Cur, y, innerHeight).trace)
         = RouterCallsDue(armed, y, innerHeight)
  /\ \A h \in InnerHeights :
       GoCalls(setActiveByCenter(Cur, scrollY, h).trace)
         = RouterCallsDue(armed, scrollY, h)
  /\ \A e \in Entries :
       GoCalls(observerCallback(Cur, e, scrollY, innerHeight).trace)
         = RouterCallsDue(Arms(e), scrollY, innerHeight)

\* armed on the card that declares no scene: the router was called with
\* "noop", and events at this position call it no more
C7_Witness ==
  /\ armed
  /\ active # NoCard
  /\ active = Nearest(scrollY, innerHeight)
  /\ steps[active].scene = ""

\* the callback logged in tr drew the scatter before it reached
\* setActiveByCenter: the render of the observer itself
ObserverRenders(tr) ==
  \E i \in 1..Len(tr) :
    /\ tr[i].op = "drawScatter"
    /\ i < Len(tr)
    /\ tr[i + 1].op = "showFineNote"
    /\ \A j \in 1..i : tr[j].op # "setActiveByCenter"
    /\ \E k \in (i + 1)..Len(tr) :
         /\ tr[k].op = "addQuadrantsIfNeeded"
         /\ \A j \in 1..k : tr[j].op # "setActiveByCenter"

Observable(s) ==
  [ mode |-> s.mode,
    dimmedBubbles |-> Dimmed(s.bubbles),
    dimmedLabels |-> Dimmed(s.labels),
    dimmedRects |-> Dimmed(s.rects),
    isHorrorFocused |-> s.isHorrorFocused,
    guides |-> s.guides > 0 /\ s.guidesOpacity # "0",
    title |-> s.title ]

\* C9: after the scenes baseline, horror, bars, baseline, each issued once
\* the work of the previous one has completed, the chart is in the state
\* that baseline alone produces from a cold start: mode scatter, no mark
\* dimmed, isHorrorFocused false, quadrant guides present, title "The Hit
\* Matrix".
C9_SequenceEndsLikeBaseline ==
  (seqPos = Len(Pattern) /\ Settled) =>
    /\ Observable(Cur) = Observable(go(Initial, "baseline"))
    /\ Observable(Cur) =
         [ mode |-> "scatter", dimmedBubbles |-> {}, dimmedLabels |-> {},
           dimmedRects |-> {}, isHorrorFocused |-> FALSE, guides |-> TRUE,
           title |-> TitleHit ]

\* the four scenes have been issued in order and everything has completed
C9_Witness == seqPos = Len(Pattern) /\ Settled /\ fearRows = "loaded"

\* what a call did to the chart: its log without the router entry and the
\* methodology button, which is not part of the chart
ChartOps(tr) ==
  SelectSeq(tr, LAMBDA c : c.op \notin { "go", "hideMethodologyBtn",
                                         "showMethodologyBtn" })

RestoresFirst(tr) ==
  /\ ChartOps(tr) # << >>
  /\ ChartOps(tr)[1].op = "restoreFromHorrorZoom"

NeverRestores(tr) == \A i \in 1..Len(tr) : tr[i].op # "restoreFromHorrorZoom"

\* the scenes whose branch of go starts with restoreFromHorrorZoom
RestoringScenes ==
  { "baseline", "quadrants", "high-views", "critical-darlings", "horror" }

KindSwap ==
  /\ mode \in { "scatter", "bars" }
  /\ mode' \in { "scatter", "bars" }
  /\ mode' # mode

\* the step is the end of a crossfadeOut that runs its callback, or the
\* continuation of drawFearBars that such a callback left awaiting the load
AfterCrossfadeOut ==
  \/ fades # << >> /\ Head(fades).cb # "" /\ FadeEnd
  \/ LoadDone

\* C11: every swap of the chart kind, scatter to bars and bars to scatter,
\* renders the new chart in the completion callback of a crossfadeOut,
\* never without a completed crossfadeOut before it.
C11_SwapAfterCrossfadeOut == [][KindSwap => AfterCrossfadeOut]_vars

\* scene identifiers go has no branch for: the default of a card without
\* data-scene, the grouped bars, a quadrant nobody routes, a misspelling
OtherScenes == { "noop", "grouped", "bars_grouped", "cult-corner", "Baseline" }

\* record s without the log of the call
Unlogged(s) == [s EXCEPT !.trace = << >>]

GuidesShown(s) == s.quadrantsAdded /\ s.guides > 0 /\ s.guidesOpacity # "0"

\* record s shows the scatter with guides and no focus
ScatterUnfocused(s) ==
  /\ s.mode = "scatter"
  /\ GuidesShown(s)
  /\ ~ s.isHorrorFocused
  /\ Dimmed(s.bubbles) = {}
  /\ Dimmed(s.labels) = {}
  /\ DOMAIN s.bubbles = Genres

\* C13: from any settled state (nothing drawn, any scatter state, focused
\* or zoomed, any bars state) a router call with baseline or quadrants ends
\* with mode scatter, the quadrant guides present, isHorrorFocused false
\* and no bubble or label dimmed; and so is the chart whenever baseline or
\* quadrants was the last scene and everything has completed.
C13_BaselineClearsFocus ==
  Settled =>
    /\ \A sc \in { "baseline", "quadrants" } : ScatterUnfocused(go(Cur, sc))
    /\ lastScene \in { "baseline", "quadrants" } => ScatterUnfocused(Cur)

\* baseline was the last scene, reached after the bars had been shown
C13_Witness ==
  /\ Settled
  /\ lastScene = "baseline"
  /\ fearRows = "loaded"
  /\ armed
  /\ active = 1

\* every mark of marks is dimmed and non-interactive exactly when it is in
\* dimSet, and fully interactive otherwise
DimmedExactly(marks, dimSet) ==
  \A m \in DOMAIN marks :
    /\ marks[m].dimmed = (m \in dimSet)
    /\ marks[m].pe = IF m \in dimSet THEN "none" ELSE "all"

\* record s shows the scatter focused on horror
HorrorFocused(s) ==
  /\ s.mode = "scatter"
  /\ GuidesShown(s)
  /\ s.isHorrorFocused
  /\ s.title = TitleHorror
  /\ DOMAIN s.bubbles = Genres
  /\ "Horror" \in DOMAIN s.bubbles
  /\ DimmedExactly(s.bubbles, Genres \ { "Horror" })
  /\ DimmedExactly(s.labels, Genres \ { "Horror" })

\* C14: from any settled state a router call with horror ends with mode
\* scatter, the guides present, isHorrorFocused true, the title "Horror in
\* the Hit Matrix" and exactly the bubbles and labels of the genres other
\* than Horror dimmed and non-interactive; and so is the chart whenever
\* horror was the last scene and everything has completed.
C14_HorrorFocus ==
  Settled =>
    /\ HorrorFocused(go(Cur, "horror"))
    /\ lastScene = "horror" => HorrorFocused(Cur)

\* horror was the last scene and the other genres are dimmed
C14_Witness ==
  /\ Settled
  /\ lastScene = "horror"
  /\ Dimmed(bubbles) = Genres \ { "Horror" }
  /\ armed

\* the genres the high-views focus leaves undimmed
HighViewsSurvivors == { g \in Genres : g \in { "Comedy", "Action", "Drama" } }

\* the genres the critical-darlings focus leaves undimmed: rating above the
\* mean rating and views below the mean views (means compared as sums)
CriticalDarlingsSurvivors ==
  { g \in Genres :
      /\ Cardinality(Genres) * Datum(g).avg_imdb > SumRating
      /\ Cardinality(Genres) * Datum(g).total_views < SumViews }

SurvivorsOf(scene) ==
  IF scene = "high-views" THEN HighViewsSurvivors ELSE CriticalDarlingsSurvivors

\* the dim state of record s is that of the quadrant focus of scene alone
QuadrantFocused(s, scene) ==
  /\ s.mode = "scatter"
  /\ DOMAIN s.bubbles = Genres
  /\ DimmedExactly(s.bubbles, Genres \ SurvivorsOf(scene))
  /\ DimmedExactly(s.labels, Genres \ SurvivorsOf(scene))

RedrawsBars(tr) ==
  \E i \in 1..Len(tr) :
    tr[i].op \in { "crossfadeOut", "crossfadeIn", "drawFearBars", "d3.csv",
                   "setTimeout", "drawScatter" }

\* C16: a router call with bars while mode is bars only clears the bar
\* dimming (and shows the methodology button): no crossfade, load or timer
\* is started, the bars are neither removed nor redrawn, and mode, title,
\* subtitle and everything else stay as they were.
C16_BarsInBarsClearsFocusOnly ==
  mode = "bars" =>
    LET r == go(Cur, "bars")
    IN /\ ~ RedrawsBars(r.trace)
       /\ DOMAIN r.rects = DOMAIN rects
       /\ DimmedExactly(r.rects, {})
       /\ r.methodologyBtn = "block"
       /\ [Unlogged(r) EXCEPT !.rects = rects, !.methodologyBtn = methodologyBtn]
            = Cur

\* the bars are shown with a supergroup in focus, which a call with bars
\* clears
C16_Witness ==
  /\ mode = "bars"
  /\ Settled
  /\ Dimmed(rects) # {}
  /\ Dimmed(go(Cur, "bars").rects) = {}
  /\ DOMAIN go(Cur, "bars").rects = FEAR_SET

\* the supergroup a bars_{group} scene puts in focus
GroupOf(scene) ==
  CASE scene = "bars_psychological" -> Psychological
    [] scene = "bars_body" -> Body
    [] scene = "bars_societal" -> Societal
    [] scene = "bars_cosmic" -> Cosmic

GroupScenes == BarsScenes \ { "bars" }

\* C17: when a bars_{group} scene was requested and no other scene after
\* it, then once everything it started has completed (the crossfade, the
\* load, the focus timer) the mode is bars and exactly the bars outside the
\* supergroup are dimmed, in whatever order the load and the timer
\* complete.
C17_GroupFocusReached ==
  (Settled /\ lastScene \in GroupScenes) =>
    /\ mode = "bars"
    /\ DOMAIN rects = FEAR_SET
    /\ DimmedExactly(rects,
         { f \in FEAR_SET : FEAR_GROUP_MAP(f) # GroupOf(lastScene) })

\* ------------------------------------------------------ invariant claims
\* the methodology button is displayed (the style sheet hides it until
\* showMethodologyBtn sets display: block)
MethodologyShown == methodologyBtn = "block"

\* C18: whenever no callback, load or timer is pending, the methodology
\* button is shown if and only if the mode is bars: shown in every bars
\* state, hidden in every scatter state.
C18_MethodologyIffBars ==
  (Settled /\ mode \in { "scatter", "bars" }) =>
    (MethodologyShown <=> mode = "bars")

ObserverAlone(s, isIntersecting) ==
  observerCallback(s, [isIntersecting |-> isIntersecting,
                       intersectionRatio |-> 0], scrollY, innerHeight)

\* the step is a scroll or resize that called the router, an observer
\* callback, or the completion of a crossfade the router started
RouterOrObserverStep ==
  \/ Moved /\ GoCalls(setActiveByCenter(Cur, scrollY', innerHeight').trace)
               # << >>
  \/ \E i \in BOOLEAN, r \in Ratios : Observer(i, r)
  \/ AfterCrossfadeOut

\* C20 as stated: the mode changes only in a router call or in a callback
\* the router scheduled; the observer callback by itself never changes it.
C20_ModeOnlyByRouter ==
  [][ /\ \A i \in BOOLEAN : ObserverAlone(Cur, i).mode = mode
      /\ mode' # mode => RouterOrObserverStep ]_vars

\* C20 amended: the mode changes only in a router call or in a callback the
\* router scheduled, except for the first intersecting observer callback,
\* which draws the scatter itself and takes the mode from none to scatter;
\* after that the observer callback by itself never changes the mode.
C20_ModeByRouterOrFirstRender ==
  [][ /\ \A i \in BOOLEAN :
           IF i /\ ~ baselineRendered
           THEN mode = "none" /\ ObserverAlone(Cur, i).mode = "scatter"
           ELSE ObserverAlone(Cur, i).mode = mode
      /\ mode' # mode => RouterOrObserverStep ]_vars

\* the scatter is drawn and the router has never been called
C20_Witness ==
  /\ mode = "scatter"
  /\ baselineRendered
  /\ lastScene = "none"
  /\ active = NoCard

\* ------------------------------------------------------------ mark claims
\* mark m answers the pointer: pointer-events is not none ("css" is the
\* style sheet's default of a mark no dim predicate has touched)
Interactive(m) == m.pe # "none"

\* every mark of marks that is displayed is dimmed and non-interactive, or
\* not dimmed and interactive
Exclusive(marks) ==
  \A k \in DOMAIN marks : marks[k].dimmed <=> ~ Interactive(marks[k])

\* C21: in every reachable state every mark (bubble, label, bar) is either
\* dimmed and non-interactive or not dimmed and interactive.
C21_DimmedXorInteractive ==
  /\ Exclusive(bubbles)
  /\ Exclusive(labels)
  /\ Exclusive(rects)

\* a quadrant or horror focus is applied: some bubbles are dimmed with
\* pointer-events none, the others are not dimmed with pointer-events all
C21_Witness ==
  /\ mode = "scatter"
  /\ \E g, h \in DOMAIN bubbles :
       /\ bubbles[g].dimmed /\ bubbles[g].pe = "none"
       /\ ~ bubbles[h].dimmed /\ bubbles[h].pe = "all"

\* C22: with the scatter drawn, calling addQuadrantsIfNeeded once, twice or
\* three times leaves exactly one set of guides (two lines, four corner
\* labels, two mean annotations), the later calls changing nothing; and in
\* every state with mode scatter quadrantsAdded is true exactly when the
\* guides are on the axis layer.
C22_GuidesIdempotent ==
  mode = "scatter" =>
    LET once == addQuadrantsIfNeeded(Cur)
        twice == addQuadrantsIfNeeded(once)
        thrice == addQuadrantsIfNeeded(twice)
    IN /\ quadrantsAdded <=> guides > 0
       /\ guides <= 1
       /\ once.quadrantsAdded
       /\ GuideElements(once) = [line |-> 2, label |-> 4, axisLabel |-> 2]
       /\ Unlogged(twice) = Unlogged(once)
       /\ Unlogged(thrice) = Unlogged(once)

\* the scatter carries its guides again after the bars had removed them
C22_Witness ==
  /\ mode = "scatter"
  /\ quadrantsAdded
  /\ guides = 1
  /\ fearRows = "loaded"
  /\ Settled

\* the zoom has run to its end: axes on the zoom scales, nothing pending
ZoomedAndSettled == Settled /\ mode = "scatter" /\ axes = "zoom"

\* the position, size, colour, opacity and display of a mark
Look(m) ==
  [ at |-> m.at, opacity |-> m.opacity, display |-> m.display,
    r |-> IF "r" \in DOMAIN m THEN m.r ELSE "",
    fill |-> IF "fill" \in DOMAIN m THEN m.fill ELSE "" ]

MemberCount(g) == Len(SelectSeq(exploded, LAMBDA d : d.genre = g))
ExplodedGenres == { exploded[i].genre : i \in DOMAIN exploded }
AggregateGenres == { aggregates[i].genre : i \in DOMAIN aggregates }

\* C24: for every titles file, a genre with fewer than 5 membership rows is
\* not in the scatter aggregates, and is neither among the bubbles nor among
\* the labels the render joins to them.
C24_RareGenresNeverPlotted ==
  \A g \in ExplodedGenres :
    MemberCount(g) < 5 =>
      /\ g \notin AggregateGenres
      /\ g \notin plotted.marks
      /\ g \notin plotted.labels

C24_Witness ==
  /\ pc = "done"
  /\ \E g \in ExplodedGenres : MemberCount(g) = 4
  /\ \E g \in plotted.marks : g \in plotted.labels /\ MemberCount(g) = 5

\* a row the preparation does not skip
Complete(m) ==
  m.OMDb_Genre # << >> /\ m.Views # << >> /\ m.OMDb_imdbRating # << >>

\* a row with its three fields present and both numerals parseable
WellFormed(m) ==
  /\ Complete(m)
  /\ ParseViews(m.Views) # NaN
  /\ ParseRating(m.OMDb_imdbRating) # NaN

\* the categories a row lists, separated by commas with or without a space
Listed(m) ==
  LET parts == splitAnyComma(m.OMDb_Genre)
  IN { trim(parts[i]) : i \in DOMAIN parts }

\* the rows of the titles file that list category g
Listing(g) == SelectSeq(movies, LAMBDA m : Complete(m) /\ g \in Listed(m))

ListedGenres ==
  UNION { Listed(movies[i]) : i \in { j \in DOMAIN movies : Complete(movies[j]) } }

\* C25: a row listing several categories separated by commas, with or without
\* a space after the comma, contributes one membership row to each listed
\* category: the rollup of each listed category counts the row and adds its
\* reach and its quality.
C25_EveryListedCategoryCounts ==
  /\ pc \in { "rolled", "filtered", "done" }
  /\ \A i \in DOMAIN movies : Complete(movies[i]) => WellFormed(movies[i])
  =>
    \A g \in ListedGenres :
      \E k \in DOMAIN rolled :
        LET ms == Listing(g)
        IN /\ rolled[k].genre = g
           /\ rolled[k].count = Len(ms)
           /\ rolled[k].total_views =
                SumSeq([i \in 1..Len(ms) |-> ParseViews(ms[i].Views)])
           /\ rolled[k].avg_imdb =
                [ num |-> SumSeq([i \in 1..Len(ms) |->
                                    ParseRating(ms[i].OMDb_imdbRating)]),
                  den |-> Len(ms) ]

\* the rows of the fear file that carry label f, and the first of them
RowsOf(f) == { i \in DOMAIN fearCsv : FearKey(fearCsv[i]) = f }
FirstRow(f) == CHOOSE i \in RowsOf(f) : \A j \in RowsOf(f) : i <= j

\* C26: the fear counts hold each canonical label of the file once with its
\* number of rows, ordered by count descending, and labels of equal count
\* come in the order of their first occurrence in the rows.
C26_DescendingThenFirstSeen ==
  pc \in { "counted", "grouped" } =>
    /\ { counts[k].fear : k \in DOMAIN counts }
         = { f \in FEAR_SET : RowsOf(f) # {} }
    /\ \A k \in DOMAIN counts :
         counts[k].count = Cardinality(RowsOf(counts[k].fear))
    /\ \A k \in DOMAIN counts : \A l \in DOMAIN counts :
         k < l =>
           \/ counts[k].count > counts[l].count
           \/ /\ counts[k].count = counts[l].count
              /\ FirstRow(counts[k].fear) < FirstRow(counts[l].fear)

\* two labels tie below a label with more rows that was first seen after both
C26_Witness ==
  /\ pc = "counted"
  /\ Len(counts) >= 3
  /\ counts[1].count > counts[2].count
  /\ counts[2].count = counts[3].count
  /\ FirstRow(counts[1].fear) > FirstRow(counts[3].fear)

Supergroups == { Societal, Body, Psychological, Cosmic }
BarTotal(bars) == SumSeq([k \in 1..Len(bars) |-> bars[k].count])

C28_FourTimesCountTwiceRadius ==
  pc \in { "filtered", "done" } =>
    \A i \in DOMAIN aggregates : \A j \in DOMAIN aggregates :
      aggregates[i].count = 4 * aggregates[j].count =>
        rScale(aggregates[i].count, aggregates)
          = 2 * rScale(aggregates[j].count, aggregates)

\* what the scale does give: the radii above the 5 pixels of the range's
\* lower end are in the ratio 2 when the larger count is the largest
QuarterOfMaxRadii ==
  pc \in { "filtered", "done" } =>
    \A i \in DOMAIN aggregates : \A j \in DOMAIN aggregates :
      /\ aggregates[i].count = 4 * aggregates[j].count
      /\ aggregates[i].count = MaxCount(aggregates)
      => /\ rScale(aggregates[i].count, aggregates) = 50000
         /\ rScale(aggregates[j].count, aggregates) = 27500

\* the tooltip shows what a bubble's mouseover listener writes
ShowsGenre ==
  tooltip.opacity = 1 /\ tooltip.html \in { << "Genre:", g >> : g \in Genres }

\* C29: a mouseover, mousemove or mouseout listener of a bubble that runs
\* while mode is not scatter changes nothing, and in no state with mode bars
\* does the tooltip show the content of a bubble.
C29_StaleHoverInert ==
  /\ mode # "scatter" =>
       /\ \A g \in Genres : Unlogged(bubbleMouseover(Cur, g)) = Cur
       /\ \A x \in ClientXs : Unlogged(bubbleMousemove(Cur, x)) = Cur
       /\ Unlogged(bubbleMouseout(Cur)) = Cur
  /\ mode = "bars" => ~ ShowsGenre

\* in bars, with the content of a bubble still in the hidden tooltip and the
\* tooltip since moved by a bar's listener
C29_Witness ==
  /\ mode = "bars"
  /\ tooltip.html \in { << "Genre:", g >> : g \in Genres }
  /\ tooltip.left # Initial.tooltip.left
  /\ rects # NoMarks

\* C30: when a bars_{group} scene requested outside Bars is followed by a
\* bars scene before its delayed group-focus timer fires, then once every
\* timer has fired and nothing else is pending no bar is dimmed: the timer
\* of the earlier request does not dim the bars the later request cleared.
C30_NoDimAfterBars ==
  (Settled /\ lastScene = "bars" /\ mode = "bars") => Dimmed(rects) = {}

\* the scatter scenes whose branch starts with restoreFromHorrorZoom
RestoredScenes == Scenes \ (BarsScenes \union { "horror-zoom" })

\* every bubble and label is displayed, at its place and size of the base scale
AllMarksShown ==
  /\ \A g \in DOMAIN bubbles :
       /\ bubbles[g].display # "none"
       /\ bubbles[g].opacity # "0"
       /\ bubbles[g].at = "base"
       /\ bubbles[g].r = "base"
  /\ \A g \in DOMAIN labels :
       /\ labels[g].display # "none"
       /\ labels[g].opacity # "0"
       /\ labels[g].at = "base"

\* C31: when the restore from the zoom is issued while the hide transitions
\* of the zoom are still running, then once every transition has settled
\* every bubble and label of the scatter is displayed (no display none, no
\* opacity 0) at its base-scale position and size.
C31_RestoreOverRunningZoom ==
  (Settled /\ mode = "scatter" /\ lastScene \in RestoredScenes) => AllMarksShown

\* the chart layers and the mode of record s
Layers(s) ==
  [ mode |-> s.mode, bubbles |-> s.bubbles, labels |-> s.labels,
    rects |-> s.rects, guides |-> s.guides, axes |-> s.axes ]

\* C32: a bar render requested before the fear rows have loaded waits for
\* the load and only then sets the mode and draws: mode = bars implies the
\* rows are loaded, and a render requested while they are not leaves the
\* mode and the chart layers as they are and suspends at the load.
C32_BarsWaitForRows ==
  /\ mode = "bars" => fearRows = "loaded"
  /\ fearRows = "null" =>
       /\ Layers(drawFearBars(Cur)) = Layers(Cur)
       /\ drawFearBars(Cur).loads = loads + 1

\* a render is suspended at the load with the scatter still in the layers
C32_Witness ==
  /\ loads > 0
  /\ fearRows = "null"
  /\ mode = "scatter"
  /\ bubbles # NoMarks

\* C33: with no callback or load pending, the fine note is hidden when mode
\* is bars and when the current scene is horror-zoom, and visible in every
\* other scatter scene.
C33_FineNoteFollowsScene ==
  Settled =>
    /\ mode = "bars" => fineNoteHidden
    /\ (mode = "scatter" /\ lastScene = "horror-zoom") => fineNoteHidden
    /\ (mode = "scatter" /\ lastScene \in RestoredScenes) => ~ fineNoteHidden

\* the dim predicate on the marks is the horror-only one
HorrorOnlyDim ==
  /\ Dimmed(bubbles) = { g \in DOMAIN bubbles : notHorror(g) }
  /\ Dimmed(labels) = { g \in DOMAIN labels : notHorror(g) }

\* C34: in every state with mode = scatter, isHorrorFocused is true exactly
\* when the marks are dimmed by the horror-only predicate, and it is false
\* after critical-darlings, high-views, baseline or quadrants was applied.
C34_FlagMatchesHorrorDim ==
  mode = "scatter" =>
    /\ isHorrorFocused <=> HorrorOnlyDim
    /\ lastScene \in { "critical-darlings", "high-views", "baseline",
                       "quadrants" } => ~ isHorrorFocused

\* C35: a row whose reach, quality or category field is missing, or whose
\* reach or quality is no numeral, is dropped: the rollup is the rollup of
\* the well-formed rows alone.
C35_MalformedRowsDropped ==
  pc \in { "rolled", "filtered", "done" } =>
    rolled = Rollup(ExplodeAll(SelectSeq(movies, WellFormed)))

\* C36: the title and subtitle of a card are applied on activation exactly
\* when mode is not bars at that moment; and once a scatter scene has been
\* applied and has settled with mode = scatter, neither the title nor the
\* subtitle of the bar chart is displayed.
C36_BarsTextLeavesWithBars ==
  /\ \A i \in CardIds :
       /\ applyStepTitle(Cur, i).title =
            IF mode # "bars" /\ steps[i].title # ""
            THEN steps[i].title ELSE title
       /\ applyStepSubtitle(Cur, i).subtitle =
            IF mode # "bars" /\ steps[i].subtitle # ""
            THEN steps[i].subtitle ELSE subtitle
  /\ (Settled /\ mode = "scatter" /\ lastScene \in Scenes \ BarsScenes) =>
       /\ title # TitleBars
       /\ subtitle # SubtitleBars

\* C37: for each of the 11 fear labels the tooltip of its bar shows a
\* non-empty description: the keys of the description table are exactly the
\* labels the bars are keyed by.
C37_EveryBarHasDescription ==
  /\ DOMAIN rects \subseteq DescriptionKeys
  /\ \A f \in DOMAIN rects : rectMouseover(Cur, f).tooltip.html[3] # ""
  /\ (tooltip.opacity = 1 /\ tooltip.html # << >>
        /\ tooltip.html[1] \in FEAR_SET) => tooltip.html[3] # ""

\* the dimming and the pointer-events of every mark of state s
DimOf(s) ==
  [ bubbles |-> [g \in DOMAIN s.bubbles |->
                   << s.bubbles[g].dimmed, s.bubbles[g].pe >>],
    labels |-> [g \in DOMAIN s.labels |->
                  << s.labels[g].dimmed, s.labels[g].pe >>],
    rects |-> s.rects ]

NoZoomActive == axes # "zoom" /\ ~ zoomEnds /\ centerLabel = "absent"

\* C38: restoreFromHorrorZoom called while no zoom is active leaves the
\* mode, quadrantsAdded, isHorrorFocused, the dimming and pointer-events of
\* every mark, the set of marks and the guides as they are, and writes the
\* opacity of the guides only when quadrantsAdded is true.
C38_RestoreWithoutZoomKeepsScene ==
  NoZoomActive =>
    LET a == restoreFromHorrorZoom(Cur)
    IN /\ a.mode = mode
       /\ a.quadrantsAdded = quadrantsAdded
       /\ a.isHorrorFocused = isHorrorFocused
       /\ DimOf(a) = DimOf(Cur)
       /\ a.guides = guides
       /\ a.title = title /\ a.subtitle = subtitle
       /\ ~ quadrantsAdded => a.guidesOpacity = guidesOpacity

\* the router has applied high-views to an unzoomed scatter: its restore
\* ran over marks that the scene then dimmed, and a further restore would
\* write the styles of the marks but not their dimming
C38_Witness ==
  /\ Settled /\ NoZoomActive
  /\ mode = "scatter" /\ lastScene = "high-views"
  /\ \E g \in DOMAIN bubbles : bubbles[g].dimmed
  /\ restoreFromHorrorZoom(Cur).bubbles # bubbles

\* the router is called in trace tr only once a scatter or bar chart exists:
\* the chart was drawn before the handler began, or drawScatter precedes the
\* first router call of the handler
RoutedOverChart(tr) ==
  \A i \in 1..Len(tr) :
    tr[i].op = "go" =>
      \/ mode # "none"
      \/ \E j \in 1..(i - 1) : tr[j].op = "drawScatter"

\* C39: at most one card carries is-active, and it is the active card when
\* there is one; the router is never called while mode is none, because
\* armed implies that the observer has rendered the baseline.
C39_OneMarkerAndRouterAfterBaseline ==
  /\ isActive = IF active = NoCard THEN {} ELSE {active}
  /\ armed => baselineRendered
  /\ baselineRendered => mode # "none"
  /\ \A y \in ScrollYs, h \in InnerHeights :
       RoutedOverChart(setActiveByCenter(Cur, y, h).trace)
  /\ \A i \in BOOLEAN, r \in Ratios :
       (i \/ r = 0) =>
         RoutedOverChart(observerCallback(
           Cur, [isIntersecting |-> i, intersectionRatio |-> r],
           scrollY, innerHeight).trace)

\* the marker has moved from one card to another and the router has run
C39_Witness ==
  /\ active \notin { NoCard, 1 }
  /\ isActive = {active}
  /\ lastScene \in Scenes \ { "baseline" }
  /\ mode # "none"

GroupedScenes == { "bars_grouped", "grouped" }

\* C40: a card whose scene is "bars_grouped" or "grouped" crossfades the
\* chart to the supergroup bars: once it is the active card and nothing is
\* pending, the chart is in bars mode with one bar per supergroup.
C40_GroupedScenesDrawGroupedBars ==
  (Settled /\ active # NoCard /\ SceneOf(active) \in GroupedScenes) =>
    /\ mode = "bars"
    /\ DOMAIN rects \subseteq Supergroups

====
